---- MODULE Spec2Model ----
(***************************************************************************)
(* Demivio: the PPN target-seeking solver.                                 *)
(*                                                                         *)
(* The module models                                                       *)
(*   - the Decimal arithmetic the engine computes with (decimal.js,        *)
(*     significant-digit precision, ROUND_HALF_UP),                        *)
(*   - the formula evaluator and the inverse solvers (calculator.ts,       *)
(*     simulator.ts),                                                      *)
(*   - runSimulation, the walk of the most evolved engine,                 *)
(*   - the worker's message handler (simulator.worker.ts),                 *)
(*   - the coordinator of the page (handleSimulate / handleCancel and the  *)
(*     worker.onmessage closures) and the IndexedDB cache (db.ts).         *)
(***************************************************************************)
EXTENDS Integers, Sequences, FiniteSets, TLC

(***************************************************************************)
(* Bounds of the model.                                                    *)
(*                                                                         *)
(* Precision is the number of significant digits a Decimal keeps.  The     *)
(* program sets 20; the model keeps the same rounding rule on fewer        *)
(* digits, because the integers of TLC are 32 bits wide.                   *)
(***************************************************************************)
Precision == 3

NumWorkers == 2

MaxSearches == 2

(***************************************************************************)
(* Integer helpers.                                                        *)
(***************************************************************************)
AbsInt(n) == IF n < 0 THEN -n ELSE n

SgnInt(n) == IF n < 0 THEN -1 ELSE IF n > 0 THEN 1 ELSE 0

MinInt(a, b) == IF a <= b THEN a ELSE b

MaxInt(a, b) == IF a >= b THEN a ELSE b

RECURSIVE Pow10(_)
Pow10(k) == IF k <= 0 THEN 1 ELSE 10 * Pow10(k - 1)

\* number of decimal digits of n >= 0 (0 has none)
RECURSIVE NumDigits(_)
NumDigits(n) == IF n = 0 THEN 0 ELSE 1 + NumDigits(n \div 10)

\* n / d for n >= 0, d > 0, to the nearest integer, ties upwards
DivHalfUp(n, d) == (2 * n + d) \div (2 * d)

(***************************************************************************)
(* Decimal values: c * 10^e, kept canonical (no trailing zero in c, zero   *)
(* is [c |-> 0, e |-> 0]) so that equal values are equal records.          *)
(***************************************************************************)
RECURSIVE Canon(_, _)
Canon(c, e) ==
  IF c = 0 THEN [c |-> 0, e |-> 0]
  ELSE IF c % 10 = 0 THEN Canon(c \div 10, e + 1)
  ELSE [c |-> c, e |-> e]

\* rounding of a result to Precision significant digits, ROUND_HALF_UP
\* (nearest; a tie goes away from zero)
RoundSig(c, e) ==
  LET n == NumDigits(AbsInt(c))
  IN  IF n <= Precision THEN Canon(c, e)
      ELSE Canon(SgnInt(c) * DivHalfUp(AbsInt(c), Pow10(n - Precision)),
                 e + (n - Precision))

\* new Decimal(n) for an integer n
Dec(n) == Canon(n, 0)

ZeroD == Dec(0)

\* position of the most significant digit
TopD(a) == NumDigits(AbsInt(a.c)) + a.e

NegD(a) == [c |-> -a.c, e |-> a.e]

AbsD(a) == [c |-> AbsInt(a.c), e |-> a.e]

\* Decimal.add: exact sum, rounded; an operand too small to reach the
\* rounding digit leaves the other one unchanged
AddD(a, b) ==
  IF a.c = 0 THEN b
  ELSE IF b.c = 0 THEN a
  ELSE IF TopD(a) - TopD(b) > Precision + 1 THEN a
  ELSE IF TopD(b) - TopD(a) > Precision + 1 THEN b
  ELSE LET m == MinInt(a.e, b.e)
       IN  RoundSig(a.c * Pow10(a.e - m) + b.c * Pow10(b.e - m), m)

SubD(a, b) == AddD(a, NegD(b))

MulD(a, b) == RoundSig(a.c * b.c, a.e + b.e)

\* Decimal.div for b # 0: the quotient to Precision significant digits
DivD(a, b) ==
  IF a.c = 0 THEN ZeroD
  ELSE LET na  == AbsInt(a.c)
           nb  == AbsInt(b.c)
           k   == Precision + NumDigits(nb) - NumDigits(na)
           num == na * Pow10(k)
           big == (num \div nb) >= Pow10(Precision)
           q   == IF big THEN DivHalfUp(num, nb * 10) ELSE DivHalfUp(num, nb)
       IN  RoundSig(SgnInt(a.c) * SgnInt(b.c) * q,
                    a.e - b.e - k + (IF big THEN 1 ELSE 0))

CmpD(a, b) == SgnInt(SubD(a, b).c)

LtD(a, b) == CmpD(a, b) < 0

LteD(a, b) == CmpD(a, b) <= 0

GtD(a, b) == CmpD(a, b) > 0

GteD(a, b) == CmpD(a, b) >= 0

EqD(a, b) == CmpD(a, b) = 0

IsZeroD(a) == a.c = 0

\* rounding of a value to `places` decimal places, ROUND_HALF_UP
RoundPlaces(a, places) ==
  IF a.e >= -places THEN a
  ELSE IF (-a.e) - places > NumDigits(AbsInt(a.c)) THEN ZeroD
  ELSE Canon(SgnInt(a.c) * DivHalfUp(AbsInt(a.c), Pow10((-a.e) - places)), -places)

\* Decimal.round(): to a whole number
RoundD(a) == RoundPlaces(a, 0)

\* Decimal.toFixed(2): the value the printed string denotes
ToFixed2(a) == RoundPlaces(a, 2)


\* Decimal.floor() followed by toNumber(): the whole number below a
FloorToInt(a) ==
  IF a.e >= 0 THEN a.c * Pow10(a.e) ELSE a.c \div Pow10(-a.e)

MinD(a, b) == IF LteD(a, b) THEN a ELSE b

MaxD(a, b) == IF GteD(a, b) THEN a ELSE b

\* Decimal.floor()
FloorD(a) == Dec(FloorToInt(a))

\* Decimal.ceil()
CeilD(a) == NegD(FloorD(NegD(a)))

\* Decimal.clamp(lo, hi)
ClampD(a, lo, hi) == IF LtD(a, lo) THEN lo ELSE IF GtD(a, hi) THEN hi ELSE a

(***************************************************************************)
(* calculator.ts: the formula evaluator.                                   *)
(***************************************************************************)
RATIO_11 == Dec(11)

RATIO_12 == Dec(12)

PERCENT_12 == Canon(12, -2)

calculateDpp(transaction) ==
  SubD(MulD(transaction.unitPrice, transaction.quantity), transaction.discount)

calculateDppNilaiLain(dpp) == DivD(MulD(dpp, RATIO_11), RATIO_12)

\* a calculatePpn at the rate 0.11
calculatePpnAtRate11(dppNilaiLain) == MulD(dppNilaiLain, Canon(11, -2))

calculatePpn(dppNilaiLain) == MulD(dppNilaiLain, PERCENT_12)

calculateTransactionPpn(transaction) ==
  calculatePpn(calculateDppNilaiLain(calculateDpp(transaction)))

\* a validateTransaction that accepts every transaction
validateTransactionNone(transaction) == "null"

\* the message, or "null" for a valid transaction
validateTransaction(transaction) ==
  IF LteD(transaction.unitPrice, ZeroD) THEN "Harga satuan harus positif"
  ELSE IF LteD(transaction.quantity, ZeroD) THEN "Kuantitas harus positif"
  ELSE IF LtD(transaction.discount, ZeroD) THEN "Potongan tidak boleh negatif"
  ELSE IF GteD(transaction.discount,
               MulD(transaction.unitPrice, transaction.quantity))
       THEN "Potongan tidak boleh >= subtotal"
  ELSE "null"

(***************************************************************************)
(* simulator.ts (the engine with the three inverse solvers).               *)
(***************************************************************************)
PPN_RATE == Canon(11, -2)

\* `${unitPrice.toFixed(2)}|${quantity.toString()}|${discount.toFixed(2)}`
createTransactionKey(unitPrice, quantity, discount) ==
  <<ToFixed2(unitPrice), quantity, ToFixed2(discount)>>

\* a createResult whose score also weighs the deviation of the quantity
createResultWithQuantity(transaction, targetPpn, reference, alpha, beta) ==
  [transaction   |-> transaction,
   calculatedPpn |-> calculateTransactionPpn(transaction),
   ppnDifference |-> AbsD(SubD(calculateTransactionPpn(transaction), targetPpn)),
   score         |->
     AddD(AddD(AddD(AbsD(SubD(calculateTransactionPpn(transaction), targetPpn)),
                    MulD(alpha, AbsD(SubD(transaction.unitPrice, reference.unitPrice)))),
               MulD(beta, AbsD(SubD(transaction.discount, reference.discount)))),
          AbsD(SubD(transaction.quantity, reference.quantity)))]

createResult(transaction, targetPpn, reference, alpha, beta) ==
  LET calculatedPpn == calculateTransactionPpn(transaction)
      ppnDifference == AbsD(SubD(calculatedPpn, targetPpn))
      score ==
        AddD(AddD(ppnDifference,
                  MulD(alpha, AbsD(SubD(transaction.unitPrice, reference.unitPrice)))),
             MulD(beta, AbsD(SubD(transaction.discount, reference.discount))))
  IN  [transaction   |-> transaction,
       calculatedPpn |-> calculatedPpn,
       ppnDifference |-> ppnDifference,
       score         |-> score]

\* a solver of the price that leaves the discount out
calculateRequiredUnitPriceNoDiscount(targetPpn, quantity, discount) ==
  DivD(DivD(targetPpn, PPN_RATE), quantity)

calculateRequiredUnitPrice(targetPpn, quantity, discount) ==
  DivD(AddD(DivD(targetPpn, PPN_RATE), discount), quantity)

\* the subtraction the other way round
calculateRequiredDiscountSwapped(targetPpn, unitPrice, quantity) ==
  SubD(DivD(targetPpn, PPN_RATE), MulD(unitPrice, quantity))

calculateRequiredDiscount(targetPpn, unitPrice, quantity) ==
  SubD(MulD(unitPrice, quantity), DivD(targetPpn, PPN_RATE))

calculateRequiredQuantity(targetPpn, unitPrice, discount) ==
  DivD(AddD(DivD(targetPpn, PPN_RATE), discount), unitPrice)

roundToStep(value, step) == MulD(RoundD(DivD(value, step)), step)

\* for (let v = min; v.lte(max); v = v.add(step)) values.push(v)
RECURSIVE GridValues(_, _, _)
GridValues(min, max, step) ==
  IF LteD(min, max) THEN <<min>> \o GridValues(AddD(min, step), max, step)
  ELSE <<>>

\* an insertion that drops a value as far from the center as the last one
InsertByDistanceDropsTies(sorted, v, center) ==
  IF sorted = <<>> THEN <<v>>
  ELSE IF CmpD(AbsD(SubD(sorted[Len(sorted)], center)), AbsD(SubD(v, center))) = 0
  THEN sorted
  ELSE Append(sorted, v)

\* whether the loop of GridValues never ends: an addition that does not
\* move the value forward (the sum rounds back to it, or the step is not
\* positive) repeats for ever
RECURSIVE GridStalls(_, _, _)
GridStalls(min, max, step) ==
  IF ~LteD(min, max) THEN FALSE
  ELSE IF LteD(AddD(min, step), min) THEN TRUE
  ELSE GridStalls(AddD(min, step), max, step)

\* Array.prototype.sort (stable) by absolute distance from center
RECURSIVE InsertByDistance(_, _, _)
InsertByDistance(sorted, v, center) ==
  IF sorted = <<>> THEN <<v>>
  ELSE LET last == sorted[Len(sorted)]
       IN  IF CmpD(AbsD(SubD(last, center)), AbsD(SubD(v, center))) <= 0
           THEN Append(sorted, v)
           ELSE Append(InsertByDistance(SubSeq(sorted, 1, Len(sorted) - 1), v, center),
                       last)

RECURSIVE SortByDistance(_, _)
SortByDistance(values, center) ==
  IF values = <<>> THEN <<>>
  ELSE InsertByDistance(SortByDistance(SubSeq(values, 1, Len(values) - 1), center),
                        values[Len(values)], center)

\* the two candidate lists the generator walks, quantity-major
generatePriorityOrder(refQty, qtyMin, qtyMax, qtyStep, discountMin, discountMax, discountStep) ==
  LET qtyValues      == GridValues(qtyMin, qtyMax, qtyStep)
      discountValues == GridValues(discountMin, discountMax, discountStep)
      discountCenter == DivD(AddD(discountMin, discountMax), Dec(2))
  IN  [qtyValues |->
         IF Len(qtyValues) > 1
         THEN SortByDistance(qtyValues, ClampD(refQty, qtyMin, qtyMax))
         ELSE qtyValues,
       discountValues |->
         IF Len(discountValues) > 1
         THEN SortByDistance(discountValues, discountCenter)
         ELSE discountValues]

estimateCombinations(config) ==
  LET discountCount ==
        FloorToInt(DivD(SubD(config.discountMax, config.discountMin),
                        config.discountStep)) + 1
      quantityCount ==
        FloorToInt(DivD(SubD(config.quantityMax, config.quantityMin),
                        config.quantityStep)) + 1
  IN  discountCount * quantityCount

SmartOrderThreshold == 5000

ProgressEvery == 1000

MaxCombinations == 1000000000

\* the message, or "null" for an accepted configuration
validateConfig(config) ==
  LET txError == validateTransaction(config.referenceTransaction)
  IN  IF txError # "null" THEN "Transaksi acuan"
      ELSE IF LteD(config.targetPpn, ZeroD) THEN "Target PPN harus positif"
      ELSE IF LtD(config.tolerance, ZeroD) THEN "Toleransi tidak boleh negatif"
      ELSE IF LteD(config.quantityMin, ZeroD) THEN "Kuantitas minimum harus positif"
      ELSE IF GtD(config.quantityMin, config.quantityMax)
           THEN "Kuantitas minimum > maksimum"
      ELSE IF LteD(config.quantityStep, ZeroD) THEN "Step kuantitas harus positif"
      ELSE IF estimateCombinations(config) > MaxCombinations
           THEN "Ruang pencarian terlalu besar"
      ELSE "null"

(***************************************************************************)
(* runSimulation.  The walk state holds the locals of the function:        *)
(* results, seen, count, perfectCount, and the calls made to the two       *)
(* callbacks, in order (calls).  late is bookkeeping for the properties:   *)
(* the number of calls of a process function made when perfectCount had    *)
(* already reached topNResults.                                            *)
(***************************************************************************)
WalkStart ==
  [results |-> <<>>, seen |-> {}, count |-> 0, perfectCount |-> 0, calls |-> <<>>,
   late |-> 0]

\* a process function is entered
Entered(config, w) ==
  IF w.perfectCount >= config.topNResults THEN [w EXCEPT !.late = @ + 1] ELSE w

\* [exact] and, when the rounded value differs, rounded, rounded + step,
\* rounded - step
ValuesToTry(exact, rounded, step) ==
  IF ~EqD(rounded, exact)
  THEN <<exact, rounded, AddD(rounded, step), SubD(rounded, step)>>
  ELSE <<exact>>

\* the tail of the three process functions with the tolerance filter left out
TryTransactionNoTolerance(config, w, transaction) ==
  LET key == createTransactionKey(transaction.unitPrice, transaction.quantity,
                                  transaction.discount)
  IN  IF key \in w.seen THEN w
      ELSE LET w1 == [w EXCEPT !.seen = @ \cup {key}]
           IN  IF validateTransaction(transaction) # "null" THEN w1
               ELSE LET result == createResult(transaction, config.targetPpn,
                                               config.referenceTransaction,
                                               config.alpha, config.beta)
                    IN  [w1 EXCEPT
                           !.results = Append(@, result),
                           !.calls = Append(@, [type |-> "onResult",
                                                result |-> result]),
                           !.perfectCount =
                             IF IsZeroD(result.ppnDifference) THEN @ + 1 ELSE @]

\* the tail shared by the three process functions: key, seen, validity,
\* createResult, tolerance filter, push, onResult, perfectCount
TryTransaction(config, w, transaction) ==
  LET key == createTransactionKey(transaction.unitPrice, transaction.quantity,
                                  transaction.discount)
  IN  IF key \in w.seen THEN w
      ELSE LET w1 == [w EXCEPT !.seen = @ \cup {key}]
           IN  IF validateTransaction(transaction) # "null" THEN w1
               ELSE LET result == createResult(transaction, config.targetPpn,
                                               config.referenceTransaction,
                                               config.alpha, config.beta)
                    IN  IF LteD(result.ppnDifference, config.tolerance)
                        THEN [w1 EXCEPT
                                !.results = Append(@, result),
                                !.calls = Append(@, [type |-> "onResult",
                                                     result |-> result]),
                                !.perfectCount =
                                  IF IsZeroD(result.ppnDifference) THEN @ + 1 ELSE @]
                        ELSE w1

RECURSIVE TryDiscounts(_, _, _, _, _, _)
TryDiscounts(config, w, quantity, unitPrice, discountsToTry, i) ==
  IF i > Len(discountsToTry) THEN w
  ELSE LET discount == discountsToTry[i]
       IN  IF LtD(discount, config.discountMin) \/ GtD(discount, config.discountMax)
           THEN TryDiscounts(config, w, quantity, unitPrice, discountsToTry, i + 1)
           ELSE TryDiscounts(config,
                             TryTransaction(config, w,
                                            [unitPrice |-> unitPrice,
                                             quantity  |-> quantity,
                                             discount  |-> discount]),
                             quantity, unitPrice, discountsToTry, i + 1)

processQtyUnitPrice(config, w, quantity, unitPrice) ==
  LET exactDiscount   == calculateRequiredDiscount(config.targetPpn, unitPrice, quantity)
      roundedDiscount == roundToStep(exactDiscount, config.discountStep)
  IN  TryDiscounts(config, Entered(config, w), quantity, unitPrice,
                   ValuesToTry(exactDiscount, roundedDiscount, config.discountStep), 1)

RECURSIVE TryQuantities(_, _, _, _, _, _)
TryQuantities(config, w, unitPrice, discount, qtysToTry, i) ==
  IF i > Len(qtysToTry) THEN w
  ELSE LET quantity == qtysToTry[i]
       IN  IF \/ LtD(quantity, config.quantityMin)
              \/ GtD(quantity, config.quantityMax)
              \/ LteD(quantity, ZeroD)
           THEN TryQuantities(config, w, unitPrice, discount, qtysToTry, i + 1)
           ELSE TryQuantities(config,
                              TryTransaction(config, w,
                                             [unitPrice |-> unitPrice,
                                              quantity  |-> quantity,
                                              discount  |-> discount]),
                              unitPrice, discount, qtysToTry, i + 1)

processPriceDiscount(config, w, unitPrice, discount) ==
  LET exactQty   == calculateRequiredQuantity(config.targetPpn, unitPrice, discount)
      roundedQty == roundToStep(exactQty, config.quantityStep)
  IN  TryQuantities(config, Entered(config, w), unitPrice, discount,
                    ValuesToTry(exactQty, roundedQty, config.quantityStep), 1)

RECURSIVE TryPrices(_, _, _, _, _, _)
TryPrices(config, w, quantity, discount, pricesToTry, i) ==
  IF i > Len(pricesToTry) THEN w
  ELSE LET unitPrice == pricesToTry[i]
       IN  IF \/ LtD(unitPrice, config.priceMin)
              \/ GtD(unitPrice, config.priceMax)
              \/ LteD(unitPrice, ZeroD)
           THEN TryPrices(config, w, quantity, discount, pricesToTry, i + 1)
           ELSE TryPrices(config,
                          TryTransaction(config, w,
                                         [unitPrice |-> unitPrice,
                                          quantity  |-> quantity,
                                          discount  |-> discount]),
                          quantity, discount, pricesToTry, i + 1)

processQtyDiscount(config, w, quantity, discount) ==
  LET exactUnitPrice   == calculateRequiredUnitPrice(config.targetPpn, quantity, discount)
      roundedUnitPrice == roundToStep(exactUnitPrice, config.priceStep)
  IN  TryPrices(config, Entered(config, w), quantity, discount,
                ValuesToTry(exactUnitPrice, roundedUnitPrice, config.priceStep), 1)

\* count++
Counted(w) == [w EXCEPT !.count = @ + 1]

\* if (onProgress && count % 1000 === 0) onProgress(Math.min(count / totalEstimate, 0.99))
Progressed(w, totalEstimate) ==
  IF w.count % ProgressEvery = 0
  THEN [w EXCEPT !.calls =
          Append(@, [type |-> "onProgress",
                     progress |-> MinD(DivD(Dec(w.count), Dec(totalEstimate)),
                                       Canon(99, -2))])]
  ELSE w

\* priceLocked: quantity loop, the discount is solved
RECURSIVE WalkPriceLocked(_, _, _)
WalkPriceLocked(config, w, quantity) ==
  IF ~LteD(quantity, config.quantityMax) THEN w
  ELSE IF w.perfectCount >= config.topNResults THEN w
  ELSE WalkPriceLocked(config,
                       Counted(processQtyUnitPrice(config, w, quantity, config.priceMin)),
                       AddD(quantity, config.quantityStep))

\* discountLocked: quantity loop, the price is solved
RECURSIVE WalkDiscountLocked(_, _, _)
WalkDiscountLocked(config, w, quantity) ==
  IF ~LteD(quantity, config.quantityMax) THEN w
  ELSE IF w.perfectCount >= config.topNResults THEN w
  ELSE WalkDiscountLocked(config,
                          Counted(processQtyDiscount(config, w, quantity,
                                                     config.discountMin)),
                          AddD(quantity, config.quantityStep))

\* qtyLocked without iterator: discount loop, the price is solved
RECURSIVE WalkQtyLocked(_, _, _)
WalkQtyLocked(config, w, d) ==
  IF ~LteD(d, config.discountMax) THEN w
  ELSE IF w.perfectCount >= config.topNResults THEN w
  ELSE WalkQtyLocked(config,
                     Counted(processQtyDiscount(config, w, config.quantityMin, d)),
                     AddD(d, config.discountStep))

\* for (const [quantity, discount] of iterator): the n-th pair, quantity-major
RECURSIVE WalkIterator(_, _, _, _, _, _)
\* the rest of one iteration, w1 being the walk after count++
IteratorStep(config, w1, order, n, withProgress, totalEstimate) ==
  IF w1.perfectCount >= config.topNResults THEN w1
  ELSE WalkIterator(config,
                    IF withProgress THEN Progressed(w1, totalEstimate) ELSE w1,
                    order, n + 1, withProgress, totalEstimate)

WalkIterator(config, w, order, n, withProgress, totalEstimate) ==
  IF n > Len(order.qtyValues) * Len(order.discountValues) THEN w
  ELSE IteratorStep(config,
                    Counted(processQtyDiscount(
                      config, w,
                      order.qtyValues[((n - 1) \div Len(order.discountValues)) + 1],
                      order.discountValues[((n - 1) % Len(order.discountValues)) + 1])),
                    order, n, withProgress, totalEstimate)

\* the fallback: nested loops in natural order
RECURSIVE WalkInner(_, _, _, _, _)
WalkInner(config, w, quantity, discount, totalEstimate) ==
  IF ~LteD(discount, config.discountMax) THEN w
  ELSE WalkInner(config,
                 Progressed(Counted(processQtyDiscount(config, w, quantity, discount)),
                            totalEstimate),
                 quantity, AddD(discount, config.discountStep), totalEstimate)

RECURSIVE WalkNested(_, _, _, _)
WalkNested(config, w, quantity, totalEstimate) ==
  IF ~LteD(quantity, config.quantityMax) THEN w
  ELSE IF w.perfectCount >= config.topNResults THEN w
  ELSE WalkNested(config,
                  WalkInner(config, w, quantity, config.discountMin, totalEstimate),
                  AddD(quantity, config.quantityStep), totalEstimate)

\* the strategy selection of runSimulation, up to the last loop
qtyLocked(config) == EqD(config.quantityMin, config.quantityMax)

discountLocked(config) == EqD(config.discountMin, config.discountMax)

\* a detection that never finds the price locked
priceLockedNever(config) == FALSE

priceLocked(config) == EqD(config.priceMin, config.priceMax)

shouldUseSmartOrder(totalEstimate) == totalEstimate > SmartOrderThreshold

\* the nested fallback with a negative discountStep: the inner loop
\* `for (discount = discountMin; discount.lte(discountMax); discount =
\* discount.add(config.discountStep))` walks downwards from discountMin and
\* has no other exit, so runSimulation does not return
Hangs(config) ==
  /\ validateConfig(config) = "null"
  /\ ~priceLocked(config) /\ ~discountLocked(config) /\ ~qtyLocked(config)
  /\ LtD(config.discountStep, ZeroD)
  /\ ~shouldUseSmartOrder(estimateCombinations(config))
  /\ LteD(config.quantityMin, config.quantityMax)
  /\ LteD(config.discountMin, config.discountMax)

WalkStrategy(config, totalEstimate, order) ==
  IF priceLocked(config) /\ discountLocked(config)
  THEN processPriceDiscount(config, WalkStart, config.priceMin, config.discountMin)
  ELSE IF priceLocked(config)
  THEN WalkPriceLocked(config, WalkStart, config.quantityMin)
  ELSE IF discountLocked(config)
  THEN WalkDiscountLocked(config, WalkStart, config.quantityMin)
  ELSE IF qtyLocked(config)
  THEN IF shouldUseSmartOrder(totalEstimate)
       THEN WalkIterator(config, WalkStart, order, 1, FALSE, totalEstimate)
       ELSE WalkQtyLocked(config, WalkStart, config.discountMin)
  ELSE IF shouldUseSmartOrder(totalEstimate)
  THEN WalkIterator(config, WalkStart, order, 1, TRUE, totalEstimate)
  ELSE WalkNested(config, WalkStart, config.quantityMin, totalEstimate)

Walk(config) ==
  WalkStrategy(config, estimateCombinations(config),
               generatePriorityOrder(config.referenceTransaction.quantity,
                                     config.quantityMin, config.quantityMax,
                                     config.quantityStep,
                                     config.discountMin, config.discountMax,
                                     config.discountStep))

\* results.sort((a, b) => a.score.cmp(b.score)): stable, so an entry comes
\* after the entries of a smaller score and the earlier entries of its score
SortByScore(rs) ==
  IF rs = <<>> THEN <<>>
  ELSE LET place == [k \in 1..Len(rs) |->
                      1 + Cardinality({ j \in 1..Len(rs) :
                                          \/ CmpD(rs[j].score, rs[k].score) < 0
                                          \/ /\ CmpD(rs[j].score, rs[k].score) = 0
                                             /\ j < k })]
       IN  [i \in 1..Len(rs) |-> rs[CHOOSE k \in 1..Len(rs) : place[k] = i]]

\* Array.prototype.slice(0, n) for n >= 0
SliceTo(rs, n) == SubSeq(rs, 1, MinInt(Len(rs), n))

\* what runSimulation returns, and the callback calls it made:
\* [results |-> the returned list, calls |-> onResult / onProgress calls]
Returned(config, w) ==
  [results |-> SliceTo(SortByScore(w.results), config.topNResults),
   calls   |-> Append(w.calls, [type |-> "onProgress", progress |-> Dec(1)])]

runSimulation(config) == Returned(config, Walk(config))

(***************************************************************************)
(* lib/simulator.ts: the engine that prunes.  Its runSimulation has no     *)
(* onResult parameter and no loops for locked dimensions; past the pruning *)
(* test its processQtyDiscount is, statement for statement, the            *)
(* processQtyDiscount above.                                               *)
(***************************************************************************)
\* [found |-> FALSE] for null, or [found |-> TRUE, min, max]
findOptimalQtyRange(targetPpn, discount, priceMin, priceMax, tolerance, qtyMin, qtyMax) ==
  LET qtyForMaxPrice == DivD(AddD(DivD(targetPpn, PPN_RATE), discount), priceMax)
      qtyForMinPrice == IF GtD(priceMin, ZeroD)
                        THEN DivD(AddD(DivD(targetPpn, PPN_RATE), discount), priceMin)
                        ELSE qtyMax
      effectiveMin == MaxD(qtyMin, FloorD(qtyForMaxPrice))
      effectiveMax == MinD(qtyMax, CeilD(qtyForMinPrice))
  IN  IF GtD(effectiveMin, effectiveMax)
      THEN [found |-> FALSE, min |-> ZeroD, max |-> ZeroD]
      ELSE [found |-> TRUE, min |-> effectiveMin, max |-> effectiveMax]

\* the pruning test: the pair is skipped
PrunedAway(optimalRange, quantity) ==
  /\ optimalRange.found
  /\ \/ LtD(quantity, SubD(optimalRange.min, Dec(5)))
     \/ GtD(quantity, AddD(optimalRange.max, Dec(5)))

\* processQtyDiscount of this engine; pruning tells whether the pruning test
\* is made (as the code makes it) or taken out
PrunedProcess(config, w, quantity, discount, pruning) ==
  IF pruning /\ PrunedAway(findOptimalQtyRange(config.targetPpn, discount,
                                               config.priceMin, config.priceMax,
                                               config.tolerance,
                                               config.quantityMin, config.quantityMax),
                           quantity)
  THEN w
  ELSE processQtyDiscount(config, w, quantity, discount)

RECURSIVE PrunedWalkIterator(_, _, _, _, _, _)
PrunedIteratorStep(config, w1, order, n, totalEstimate, pruning) ==
  IF w1.perfectCount >= config.topNResults THEN w1
  ELSE PrunedWalkIterator(config, Progressed(w1, totalEstimate), order, n + 1,
                          totalEstimate, pruning)

PrunedWalkIterator(config, w, order, n, totalEstimate, pruning) ==
  IF n > Len(order.qtyValues) * Len(order.discountValues) THEN w
  ELSE PrunedIteratorStep(
         config,
         Counted(PrunedProcess(
           config, w,
           order.qtyValues[((n - 1) \div Len(order.discountValues)) + 1],
           order.discountValues[((n - 1) % Len(order.discountValues)) + 1],
           pruning)),
         order, n, totalEstimate, pruning)

RECURSIVE PrunedWalkInner(_, _, _, _, _, _)
PrunedWalkInner(config, w, quantity, discount, totalEstimate, pruning) ==
  IF ~LteD(discount, config.discountMax) THEN w
  ELSE PrunedWalkInner(config,
                       Progressed(Counted(PrunedProcess(config, w, quantity, discount,
                                                        pruning)),
                                  totalEstimate),
                       quantity, AddD(discount, config.discountStep), totalEstimate,
                       pruning)

RECURSIVE PrunedWalkNested(_, _, _, _, _)
PrunedWalkNested(config, w, quantity, totalEstimate, pruning) ==
  IF ~LteD(quantity, config.quantityMax) THEN w
  ELSE IF w.perfectCount >= config.topNResults THEN w
  ELSE PrunedWalkNested(config,
                        PrunedWalkInner(config, w, quantity, config.discountMin,
                                        totalEstimate, pruning),
                        AddD(quantity, config.quantityStep), totalEstimate, pruning)

PrunedShouldUseSmartOrder(config, totalEstimate) ==
  totalEstimate > 10000 /\ ~qtyLocked(config) /\ ~discountLocked(config)

PrunedWalk(config, pruning) ==
  IF PrunedShouldUseSmartOrder(config, estimateCombinations(config))
  THEN PrunedWalkIterator(config, WalkStart,
                          generatePriorityOrder(config.referenceTransaction.quantity,
                                                config.quantityMin, config.quantityMax,
                                                config.quantityStep,
                                                config.discountMin, config.discountMax,
                                                config.discountStep),
                          1, estimateCombinations(config), pruning)
  ELSE PrunedWalkNested(config, WalkStart, config.quantityMin,
                        estimateCombinations(config), pruning)

\* runSimulation(config, onProgress): the calls are those of onProgress
PrunedRunSimulation(config) ==
  [results |-> SliceTo(SortByScore(PrunedWalk(config, TRUE).results), config.topNResults),
   calls   |-> Append(SelectSeq(PrunedWalk(config, TRUE).calls,
                                LAMBDA call : call.type = "onProgress"),
                      [type |-> "onProgress", progress |-> Dec(1)])]

(***************************************************************************)
(* simulator.worker.ts                                                     *)
(***************************************************************************)
BATCH_SIZE == 50

\* significant digits a Number keeps of a Decimal (toNumber); every Decimal
\* of the model has at most Precision of them
NumberDigits == 15

\* Decimal.toNumber()
ToNumber(a) ==
  LET n == NumDigits(AbsInt(a.c))
  IN  IF n <= NumberDigits THEN Canon(a.c, a.e)
      ELSE Canon(SgnInt(a.c) * DivHalfUp(AbsInt(a.c), Pow10(n - NumberDigits)),
                 a.e + (n - NumberDigits))

\* the configuration the page posts holds numbers: whole numbers for the
\* prices, discounts, quantities and topN, Decimal-valued records for
\* targetPpn, tolerance, alpha and beta
deserializeConfig(config) ==
  [referenceTransaction |->
     [unitPrice |-> Dec(config.referenceTransaction.unitPrice),
      quantity  |-> Dec(config.referenceTransaction.quantity),
      discount  |-> Dec(config.referenceTransaction.discount)],
   targetPpn    |-> config.targetPpn,
   tolerance    |-> config.tolerance,
   priceMin     |-> Dec(config.priceMin),
   priceMax     |-> Dec(config.priceMax),
   discountMin  |-> Dec(config.discountMin),
   discountMax  |-> Dec(config.discountMax),
   quantityMin  |-> Dec(config.quantityMin),
   quantityMax  |-> Dec(config.quantityMax),
   quantityStep |-> Dec(config.quantityStep),
   priceStep    |-> Dec(config.priceStep),
   discountStep |-> Dec(config.discountStep),
   alpha        |-> config.alpha,
   beta         |-> config.beta,
   topNResults  |-> config.topNResults]

serializeResult(result) ==
  [transaction |-> [unitPrice |-> ToNumber(result.transaction.unitPrice),
                    quantity  |-> ToNumber(result.transaction.quantity),
                    discount  |-> ToNumber(result.transaction.discount)],
   calculatedPpn |-> ToNumber(result.calculatedPpn),
   ppnDifference |-> ToNumber(result.ppnDifference),
   score         |-> ToNumber(result.score)]

SerializeAll(results) == [k \in 1..Len(results) |-> serializeResult(results[k])]

\* The callbacks handed to runSimulation, applied to its calls in order.
\* h holds posted (the responses posted so far), streamedResults and thrown
\* (the 'Cancelled' error has unwound the walk).
RECURSIVE RunCallbacks(_, _, _, _, _)
RunCallbacks(calls, k, h, cancelled, estimate) ==
  IF k > Len(calls) \/ h.thrown THEN h
  ELSE LET call == calls[k]
           h1 ==
             IF call.type = "onProgress"
             THEN IF cancelled THEN [h EXCEPT !.thrown = TRUE]
                  ELSE [h EXCEPT !.posted =
                          Append(@, [type |-> "progress",
                                     progress |-> call.progress,
                                     estimate |-> estimate])]
             ELSE LET pushed == Append(h.streamedResults, serializeResult(call.result))
                  IN  IF Len(pushed) >= BATCH_SIZE
                      THEN [h EXCEPT !.posted =
                              Append(@, [type |-> "partial_result", results |-> pushed]),
                              !.streamedResults = <<>>]
                      ELSE [h EXCEPT !.streamedResults = pushed]
       IN  RunCallbacks(calls, k + 1, h1, cancelled, estimate)

\* what the start handler has posted when it ends: h is where the callbacks
\* left off, results the list runSimulation returned (unused when it threw)
PostedAtEnd(h, results, cancelled) ==
  IF h.thrown
  THEN IF ~cancelled
       THEN Append(h.posted, [type |-> "error", message |-> "Cancelled"])
       ELSE h.posted
  ELSE IF cancelled THEN h.posted
  ELSE (IF Len(h.streamedResults) > 0
        THEN Append(h.posted, [type |-> "partial_result",
                               results |-> h.streamedResults])
        ELSE h.posted)
       \o <<[type |-> "result", results |-> SerializeAll(SortByScore(results))]>>

RunAndPost(run, cancelled, estimate) ==
  PostedAtEnd(RunCallbacks(run.calls, 1,
                           [posted |-> <<>>, streamedResults |-> <<>>,
                            thrown |-> FALSE],
                           cancelled, estimate),
              run.results, cancelled)

\* self.onmessage for {type: 'start', config}: the responses it posts, in
\* order.  cancelled is the value isCancelled has while the handler runs.
OnStartConfig(config, cancelled) ==
  IF validateConfig(config) # "null"
  THEN <<[type |-> "error", message |-> validateConfig(config)]>>
  ELSE IF Hangs(config) THEN <<>>
  ELSE RunAndPost(runSimulation(config), cancelled, estimateCombinations(config))

OnStart(request, cancelled) ==
  OnStartConfig(deserializeConfig(request.config), cancelled)

\* the start handler over the engine of lib/simulator.ts
PrunedOnStart(request, cancelled) ==
  IF validateConfig(deserializeConfig(request.config)) # "null"
  THEN <<[type |-> "error",
          message |-> validateConfig(deserializeConfig(request.config))]>>
  ELSE RunAndPost(PrunedRunSimulation(deserializeConfig(request.config)), cancelled,
                  estimateCombinations(deserializeConfig(request.config)))

(***************************************************************************)
(* db.ts: the cache.  A store maps an id to the results saved under it.    *)
(***************************************************************************)
DB_VERSION == 3

\* a fingerprint that leaves the target out
hashConfigWithoutTarget(config) ==
  [ref   |-> config.referenceTransaction,
   tol   |-> config.tolerance,
   pMin  |-> config.priceMin,
   pMax  |-> config.priceMax,
   dMin  |-> config.discountMin,
   dMax  |-> config.discountMax,
   qMin  |-> config.quantityMin,
   qMax  |-> config.quantityMax,
   qStep |-> config.quantityStep,
   pStep |-> config.priceStep,
   dStep |-> config.discountStep,
   a     |-> config.alpha,
   b     |-> config.beta,
   n     |-> config.topNResults]

hashConfig(config) ==
  [ref   |-> config.referenceTransaction,
   target |-> config.targetPpn,
   tol   |-> config.tolerance,
   pMin  |-> config.priceMin,
   pMax  |-> config.priceMax,
   dMin  |-> config.discountMin,
   dMax  |-> config.discountMax,
   qMin  |-> config.quantityMin,
   qMax  |-> config.quantityMax,
   qStep |-> config.quantityStep,
   pStep |-> config.priceStep,
   dStep |-> config.discountStep,
   a     |-> config.alpha,
   b     |-> config.beta,
   n     |-> config.topNResults]

\* the ways a cache operation can go: it works, indexedDB.open fails,
\* db.transaction throws, or the request / transaction reports an error
CacheOutcomes == {"ok", "openError", "transactionThrows", "requestError"}

\* an openDB whose upgrade keeps the object store
openDBKeepsStore(store, version, outcome) ==
  IF outcome # "openError" /\ version < DB_VERSION
  THEN [store |-> store, version |-> DB_VERSION]
  ELSE [store |-> store, version |-> version]

\* openDB: the object store and the version of the database on disk once
\* indexedDB.open(DB_NAME, DB_VERSION) has settled.  Opening a database of
\* a lower version runs onupgradeneeded, which deletes the object store and
\* creates it anew; a failed open leaves the database as it was.
openDB(store, version, outcome) ==
  IF outcome # "openError" /\ version < DB_VERSION
  THEN [store |-> [k \in {} |-> <<>>], version |-> DB_VERSION]
  ELSE [store |-> store, version |-> version]

\* getFromCache: [kind |-> "resolved", found, results] (found = FALSE is the
\* null it resolves to), or [kind |-> "rejected"] when the promise it
\* returns rejects
getFromCache(store, config, outcome) ==
  IF outcome \in {"openError", "transactionThrows"}
  THEN [kind |-> "resolved", found |-> FALSE, results |-> <<>>]
  ELSE IF outcome = "requestError"
  THEN [kind |-> "rejected", found |-> FALSE, results |-> <<>>]
  ELSE LET id == hashConfig(config)
       IN  IF id \in DOMAIN store
           THEN [kind |-> "resolved", found |-> TRUE, results |-> store[id]]
           ELSE [kind |-> "resolved", found |-> FALSE, results |-> <<>>]

\* saveToCache: the store afterwards (a failed save leaves it as it was)
saveToCache(store, config, results, outcome) ==
  IF outcome = "ok"
  THEN LET id == hashConfig(config)
       IN  [k \in DOMAIN store \cup {id} |-> IF k = id THEN results ELSE store[k]]
  ELSE store

(***************************************************************************)
(* +page.svelte: the coordinator.                                          *)
(***************************************************************************)
\* the constants of the form that no input changes
qtyStep == 1

priceStep == 1

discountStep == 1

alpha == Dec(1)

beta == Canon(1, -1)

\* what the user has typed into the form when the button is clicked
Form(refPrice, refQuantity, refDiscount, targetPpn, tolerance, priceMin, priceMax, discountMin, discountMax, qtyMin, qtyMax, isPriceLocked, isQtyLocked, isDiscountLocked, n) ==
  [refPrice |-> refPrice, refQuantity |-> refQuantity, refDiscount |-> refDiscount,
   targetPpn |-> targetPpn, tolerance |-> tolerance,
   priceMin |-> priceMin, priceMax |-> priceMax,
   discountMin |-> discountMin, discountMax |-> discountMax,
   qtyMin |-> qtyMin, qtyMax |-> qtyMax,
   isPriceLocked |-> isPriceLocked, isQtyLocked |-> isQtyLocked,
   isDiscountLocked |-> isDiscountLocked, topN |-> n]

\* the values the form field topN takes
TopNs == {2, 5}

\* the forms of the runs with several searches: the discount locked, two
\* targets close to each other over two quantity ranges, and a target that
\* validateConfig rejects
Forms ==
  { Form(5, 2, 0, Canon(1, -1), Canon(1, -1), 0, 10, 0, 2, 1, 4, FALSE, FALSE, TRUE, 5),
    Form(5, 2, 0, Canon(1003, -4), Canon(1, -1), 0, 10, 0, 2, 2, 4, FALSE, FALSE, TRUE, 5),
    Form(5, 2, 0, ZeroD, Canon(1, -1), 0, 10, 0, 2, 1, 4, FALSE, FALSE, TRUE, 5) }

\* the forms of the runs with one search: every combination of locks, with
\* targets above and below the tolerance
SingleForms ==
  { Form(5, 2, 1, t, tol, 0, 10, 0, 2, 1, 4, pl, ql, dl, n) :
      t \in {Canon(99, -2), Dec(1), Canon(5, -2), ZeroD}, tol \in {ZeroD, Canon(1, -1)},
      pl \in BOOLEAN, ql \in BOOLEAN, dl \in BOOLEAN, n \in TopNs }

\* the forms of Scenario C: the price locked, 1001 quantities and 999001
\* discounts, an estimate of 1_000_000_001 for the whole range
CapForms ==
  { Form(5, 2, 0, Dec(11), ZeroD, 0, 10, 0, 999000, 1, 1001, TRUE, FALSE, FALSE, n) :
      n \in TopNs }

\* the forms of a search in which one shard fails: the quantities start at
\* 0, which validateConfig rejects for the shard that holds it, or the
\* target is 0, which it rejects for every shard; with the quantities from 1
\* and the target 0.1 no shard fails
FaultForms ==
  { Form(5, 2, 0, t, Canon(1, -1), 0, 10, 0, 2, qtyMin, 4, FALSE, FALSE, TRUE, 5) :
      t \in {Canon(1, -1), ZeroD}, qtyMin \in {0, 1} }

\* let topN = 100
DefaultTopN == 100

\* const baseConfig = {...}
BuildBaseConfig(f) ==
  [referenceTransaction |->
     [unitPrice |-> f.refPrice, quantity |-> f.refQuantity, discount |-> f.refDiscount],
   targetPpn    |-> f.targetPpn,
   tolerance    |-> f.tolerance,
   priceMin     |-> IF f.isPriceLocked THEN f.refPrice ELSE f.priceMin,
   priceMax     |-> IF f.isPriceLocked THEN f.refPrice ELSE f.priceMax,
   discountMin  |-> IF f.isDiscountLocked THEN f.refDiscount ELSE f.discountMin,
   discountMax  |-> IF f.isDiscountLocked THEN f.refDiscount ELSE f.discountMax,
   quantityMin  |-> IF f.isQtyLocked THEN f.refQuantity ELSE f.qtyMin,
   quantityMax  |-> IF f.isQtyLocked THEN f.refQuantity ELSE f.qtyMax,
   quantityStep |-> qtyStep,
   priceStep    |-> priceStep,
   discountStep |-> discountStep,
   alpha        |-> alpha,
   beta         |-> beta,
   topNResults  |-> f.topN]

\* the range of worker i (0-based) among n workers
sliceSize(baseConfig, n) ==
  MaxInt(1, (baseConfig.quantityMax - baseConfig.quantityMin) \div n)

startQty(baseConfig, i, n) == baseConfig.quantityMin + i * sliceSize(baseConfig, n)

endQty(baseConfig, i, n) ==
  IF i = n - 1 THEN baseConfig.quantityMax
  ELSE startQty(baseConfig, i, n) + sliceSize(baseConfig, n) - 1

workerConfig(baseConfig, i, n) ==
  [baseConfig EXCEPT
     !.quantityMin = startQty(baseConfig, i, n),
     !.quantityMax = MaxInt(startQty(baseConfig, i, n), endQty(baseConfig, i, n))]

\* new Map(allResults.map(r => [key, r])).values(): one entry per key, at
\* the place of the key's first result, holding the key's last result
MergeKey(r) == <<r.transaction.unitPrice, r.transaction.quantity, r.transaction.discount>>

uniqueResults(allResults) ==
  LET firsts == { k \in 1..Len(allResults) :
                    \A j \in 1..(k - 1) : MergeKey(allResults[j]) # MergeKey(allResults[k]) }
      LastOf(k) == CHOOSE j \in 1..Len(allResults) :
                     /\ MergeKey(allResults[j]) = MergeKey(allResults[k])
                     /\ \A m \in (j + 1)..Len(allResults) :
                          MergeKey(allResults[m]) # MergeKey(allResults[k])
      RECURSIVE Build(_)
      Build(k) == IF k > Len(allResults) THEN <<>>
                  ELSE IF k \in firsts THEN <<allResults[LastOf(k)]>> \o Build(k + 1)
                  ELSE Build(k + 1)
  IN  Build(1)

\* a comparator that looks at the score alone
MergeCompareByScore(a, b) == CmpD(a.score, b.score)

\* the comparator of uniqueResults.sort: negative when a goes first
MergeCompare(a, b) ==
  LET aPerfect == IsZeroD(a.ppnDifference)
      bPerfect == IsZeroD(b.ppnDifference)
  IN  IF aPerfect /\ ~bPerfect THEN -1
      ELSE IF ~aPerfect /\ bPerfect THEN 1
      ELSE CmpD(a.score, b.score)

RECURSIVE InsertMerged(_, _)
InsertMerged(sorted, r) ==
  IF sorted = <<>> THEN <<r>>
  ELSE LET last == sorted[Len(sorted)]
       IN  IF MergeCompare(last, r) <= 0 THEN Append(sorted, r)
           ELSE Append(InsertMerged(SubSeq(sorted, 1, Len(sorted) - 1), r), last)

RECURSIVE SortMerged(_)
SortMerged(rs) ==
  IF rs = <<>> THEN <<>>
  ELSE InsertMerged(SortMerged(SubSeq(rs, 1, Len(rs) - 1)), rs[Len(rs)])

RECURSIVE Flat(_, _)
Flat(lists, k) == IF k > Len(lists) THEN <<>> ELSE lists[k] \o Flat(lists, k + 1)

\* the list the last worker's result installs
MergedResults(workerResults, n) ==
  SliceTo(SortMerged(uniqueResults(Flat(workerResults, 1))), n)

(***************************************************************************)
(* The state.                                                              *)
(*                                                                         *)
(* searches holds one record per call of handleSimulate that reached the   *)
(* cache lookup: the locals its closures share (baseConfig, activeWorkers, *)
(* workerResults, progressMap), where the call stands (state), and how     *)
(* often its merge block has run (merges) and the list it installed        *)
(* (final).  handler[w] is the search whose onmessage closure is installed *)
(* on worker w (0: none).                                                  *)
(*                                                                         *)
(* A start request and the responses it causes carry the search that       *)
(* posted the start (field search).  The program's messages have no such   *)
(* field and no handler reads it; it only lets properties name the search  *)
(* a message belongs to.                                                   *)
(***************************************************************************)
VARIABLES
  workers,        \* workers.length: 0 before onMount
  topN,           \* the form field topN
  simResults,
  simError,       \* a message, or "null"
  simRunning,
  simProgress,
  simEstimate,
  searches,
  handler,
  inbox,          \* per worker: requests posted to it, not yet handled
  isCancelled,    \* per worker: its isCancelled flag
  outbox,         \* per worker: responses it posted, not yet delivered
  cacheStore,     \* the object store: id -> results
  pendingSaves,   \* saveToCache calls that have not completed yet
  dbVersion,      \* the version of the database DemivioCache on disk
  applied         \* the last call of a function of the engine made on its
                  \* own: its name, its arguments and what it returned

vars == <<workers, topN, simResults, simError, simRunning, simProgress,
          simEstimate, searches, handler, inbox, isCancelled, outbox,
          cacheStore, pendingSaves, dbVersion, applied>>

WorkerIds == 1..NumWorkers

EmptyStore == [k \in {} |-> <<>>]

Init ==
  /\ workers = 0
  /\ topN = DefaultTopN
  /\ simResults = <<>>
  /\ simError = "null"
  /\ simRunning = FALSE
  /\ simProgress = ZeroD
  /\ simEstimate = 0
  /\ searches = <<>>
  /\ handler = [w \in WorkerIds |-> 0]
  /\ inbox = [w \in WorkerIds |-> <<>>]
  /\ isCancelled = [w \in WorkerIds |-> FALSE]
  /\ outbox = [w \in WorkerIds |-> <<>>]
  /\ cacheStore = EmptyStore
  /\ pendingSaves = <<>>
  /\ dbVersion = DB_VERSION
  /\ applied = [op |-> "none"]

\* onMount
Mount ==
  /\ workers = 0
  /\ workers' = NumWorkers
  /\ UNCHANGED <<topN, simResults, simError, simRunning, simProgress,
                 simEstimate, searches, handler, inbox, isCancelled, outbox,
                 cacheStore, pendingSaves>>
  /\ UNCHANGED <<dbVersion, applied>>

\* handleSimulate up to `await getFromCache(baseConfig)`, with the form
\* holding f; the button is disabled while simRunning
HandleSimulate(f) ==
  /\ ~simRunning
  /\ topN' = f.topN
  /\ IF workers = 0
     THEN /\ simError' = "Worker tidak tersedia"
          /\ UNCHANGED <<simResults, simRunning, simProgress, searches>>
     ELSE /\ Len(searches) < MaxSearches
          /\ simError' = "null"
          /\ simResults' = <<>>
          /\ simRunning' = TRUE
          /\ simProgress' = ZeroD
          /\ searches' = Append(searches,
               [state         |-> "await",
                baseConfig    |-> BuildBaseConfig(f),
                activeWorkers |-> 0,
                workerResults |-> <<>>,
                progressMap   |-> [w \in {} |-> ZeroD],
                merges        |-> 0,
                final         |-> <<>>])
  /\ UNCHANGED <<workers, simEstimate, handler, inbox, isCancelled,
                 outbox, cacheStore, pendingSaves>>
  /\ UNCHANGED <<dbVersion, applied>>

StartRequest(baseConfig, w, s) ==
  [type |-> "start", config |-> workerConfig(baseConfig, w - 1, workers), search |-> s]

\* a handleSimulate that starts the shards whatever the cache holds
ResumeSimulateStartsAnyway(s, outcome) ==
  LET cached == getFromCache(openDB(cacheStore, dbVersion, outcome).store,
                             searches[s].baseConfig, outcome)
  IN  IF cached.kind = "rejected"
      THEN /\ searches' = [searches EXCEPT ![s].state = "rejected"]
           /\ UNCHANGED <<simResults, simRunning, simProgress, handler, inbox>>
      ELSE /\ searches' = [searches EXCEPT
                ![s].state = IF cached.found THEN "cached" ELSE "running",
                ![s].activeWorkers = workers,
                ![s].workerResults = [w \in 1..workers |-> <<>>]]
           /\ handler' = [w \in WorkerIds |-> s]
           /\ inbox' = [w \in WorkerIds |->
                          Append(inbox[w], StartRequest(searches[s].baseConfig, w, s))]
           /\ UNCHANGED <<simResults, simRunning, simProgress>>

\* handleSimulate from the point where getFromCache settles: the promise
\* rejects (the call ends there), the cache holds the list, or the shards
\* are started
ResumeSimulate(s, outcome) ==
  LET cached == getFromCache(openDB(cacheStore, dbVersion, outcome).store,
                             searches[s].baseConfig, outcome)
  IN  IF cached.kind = "rejected"
      THEN /\ searches' = [searches EXCEPT ![s].state = "rejected"]
           /\ UNCHANGED <<simResults, simRunning, simProgress, handler, inbox>>
      ELSE IF cached.found
      THEN /\ simResults' = cached.results
           /\ simRunning' = FALSE
           /\ simProgress' = Dec(1)
           /\ searches' = [searches EXCEPT ![s].state = "cached"]
           /\ UNCHANGED <<handler, inbox>>
      ELSE /\ searches' = [searches EXCEPT
                ![s].state = "running",
                ![s].activeWorkers = workers,
                ![s].workerResults = [w \in 1..workers |-> <<>>]]
           /\ handler' = [w \in WorkerIds |-> s]
           /\ inbox' = [w \in WorkerIds |->
                          Append(inbox[w], StartRequest(searches[s].baseConfig, w, s))]
           /\ UNCHANGED <<simResults, simRunning, simProgress>>

CacheGet(s, outcome) ==
  /\ s \in 1..Len(searches)
  /\ searches[s].state = "await"
  /\ ResumeSimulate(s, outcome)
  /\ cacheStore' = openDB(cacheStore, dbVersion, outcome).store
  /\ dbVersion' = openDB(cacheStore, dbVersion, outcome).version
  /\ UNCHANGED <<workers, topN, simError, simEstimate, isCancelled, outbox,
                 pendingSaves>>
  /\ UNCHANGED applied

\* handleCancel; the button is there while simRunning
HandleCancel ==
  /\ simRunning
  /\ inbox' = [w \in WorkerIds |->
                 IF w <= workers THEN Append(inbox[w], [type |-> "cancel"])
                 ELSE inbox[w]]
  /\ simRunning' = FALSE
  /\ simProgress' = ZeroD
  /\ UNCHANGED <<workers, topN, simResults, simError, simEstimate, searches,
                 handler, isCancelled, outbox, cacheStore, pendingSaves>>
  /\ UNCHANGED <<dbVersion, applied>>

\* self.onmessage, request.type === 'cancel'
WorkerCancel(w) ==
  /\ inbox[w] # <<>>
  /\ Head(inbox[w]).type = "cancel"
  /\ isCancelled' = [isCancelled EXCEPT ![w] = TRUE]
  /\ inbox' = [inbox EXCEPT ![w] = Tail(@)]
  /\ UNCHANGED <<workers, topN, simResults, simError, simRunning, simProgress,
                 simEstimate, searches, handler, outbox, cacheStore, pendingSaves>>
  /\ UNCHANGED <<dbVersion, applied>>

\* Start requests posted to a worker directly.  The page always sends steps
\* of 1; the worker takes whatever configuration its caller posts.
\* ProbeBase is accepted; each of the others departs from it in one field.
ProbeBase ==
  [referenceTransaction |-> [unitPrice |-> 5, quantity |-> 2, discount |-> 0],
   targetPpn    |-> Canon(1, -1),
   tolerance    |-> Canon(1, -1),
   priceMin     |-> 0,
   priceMax     |-> 10,
   discountMin  |-> 0,
   discountMax  |-> 0,
   quantityMin  |-> 1,
   quantityMax  |-> 2,
   quantityStep |-> 1,
   priceStep    |-> 1,
   discountStep |-> 1,
   alpha        |-> alpha,
   beta         |-> beta,
   topNResults  |-> 5]

ProbeConfigs ==
  { ProbeBase,
    [ProbeBase EXCEPT !.referenceTransaction.discount = 10],
    [ProbeBase EXCEPT !.targetPpn = ZeroD],
    [ProbeBase EXCEPT !.targetPpn = Canon(-1, -1)],
    [ProbeBase EXCEPT !.tolerance = Canon(-1, -1)],
    [ProbeBase EXCEPT !.quantityMin = 0],
    [ProbeBase EXCEPT !.quantityMin = 3],
    [ProbeBase EXCEPT !.quantityStep = 0],
    [ProbeBase EXCEPT !.quantityStep = -1],
    [ProbeBase EXCEPT !.priceStep = -1],
    [ProbeBase EXCEPT !.discountStep = -1],
    [ProbeBase EXCEPT !.discountMax = 1, !.discountStep = -1],
    [ProbeBase EXCEPT !.tolerance = Dec(10), !.quantityMax = 8, !.discountMax = 2,
                      !.topNResults = 100] }

\* start requests for the engine that prunes: a price range that does not
\* start at 0, a discount locked at 0, with and without tolerance, over a
\* short and a longer quantity range
PrunedConfigs ==
  { [ProbeBase EXCEPT !.targetPpn = Canon(11, -2), !.tolerance = tol,
                      !.priceMin = 1, !.quantityMax = qMax, !.discountMax = dMax] :
      tol \in {ZeroD, Dec(1)}, qMax \in {4, 8}, dMax \in {0, 1} }

\* scenario A in the figures the arithmetic of the model holds: the reference
\* {5, 2, 1} has the tax 0.99, which is the target; tolerance 0; bounds that
\* contain the reference
ScenarioAConfigs ==
  { [ProbeBase EXCEPT !.referenceTransaction = [unitPrice |-> 5, quantity |-> 2,
                                                discount |-> 1],
                      !.targetPpn = Canon(99, -2), !.tolerance = ZeroD,
                      !.quantityMin = qMin, !.quantityMax = 4,
                      !.discountMin = dMin, !.discountMax = 2,
                      !.topNResults = n] :
      qMin \in {1, 2}, dMin \in {0, 1}, n \in {1, 5} }

\* scenario B: price fixed at 50000, quantity locked to 20, the discount solved
ScenarioBConfigs ==
  { [ProbeBase EXCEPT !.referenceTransaction = [unitPrice |-> 50000, quantity |-> 20,
                                                discount |-> 15000],
                      !.targetPpn = Dec(200000), !.tolerance = Dec(1),
                      !.priceMin = 50000, !.priceMax = 50000,
                      !.quantityMin = 20, !.quantityMax = 20,
                      !.discountMin = 0, !.discountMax = dMax] :
      dMax \in {15000, 100000} }

ScenarioConfigs == ScenarioAConfigs \cup ScenarioBConfigs

\* the configurations the start requests carry
StartConfigs ==
  { workerConfig(BuildBaseConfig(f), i, NumWorkers) :
      f \in Forms \cup SingleForms \cup CapForms \cup FaultForms,
      i \in 0..(NumWorkers - 1) }
  \cup ProbeConfigs \cup ScenarioConfigs

\* OnStart over them.  isCancelled is FALSE for as long as the handler runs:
\* the handler sets it so, and the worker handles no other message before
\* the handler returns.
Posted ==
  [config \in StartConfigs |-> OnStart([type |-> "start", config |-> config], FALSE)]

Tagged(responses, s) ==
  [k \in 1..Len(responses) |-> [search |-> s] @@ responses[k]]

\* a worker that answers a start with the error 'Cancelled' when a cancel
\* stands behind it in the queue
WorkerStartCancelAsError(w) ==
  /\ inbox[w] # <<>>
  /\ Head(inbox[w]).type = "start"
  /\ isCancelled' = [isCancelled EXCEPT ![w] = FALSE]
  /\ IF Hangs(deserializeConfig(Head(inbox[w]).config))
     THEN /\ inbox' = [inbox EXCEPT ![w][1].type = "running"]
          /\ UNCHANGED outbox
     ELSE /\ outbox' = [outbox EXCEPT ![w] =
                  @ \o Tagged(IF Len(inbox[w]) >= 2 /\ inbox[w][2].type = "cancel"
                               THEN <<[type |-> "error", message |-> "Cancelled"]>>
                               ELSE Posted[Head(inbox[w]).config],
                              Head(inbox[w]).search)]
          /\ inbox' = [inbox EXCEPT ![w] = Tail(@)]
  /\ UNCHANGED <<workers, topN, simResults, simError, simRunning, simProgress,
                 simEstimate, searches, handler, cacheStore, pendingSaves>>
  /\ UNCHANGED <<dbVersion, applied>>

\* self.onmessage, request.type === 'start': the handler runs to its end
\* before the worker takes its next message.  A handler whose runSimulation
\* does not return keeps the worker: its request stays at the head of the
\* queue, marked running, and no message behind it is ever taken (the
\* progress messages such a run keeps posting are left out).
WorkerStart(w) ==
  /\ inbox[w] # <<>>
  /\ Head(inbox[w]).type = "start"
  /\ isCancelled' = [isCancelled EXCEPT ![w] = FALSE]
  /\ IF Hangs(deserializeConfig(Head(inbox[w]).config))
     THEN /\ inbox' = [inbox EXCEPT ![w][1].type = "running"]
          /\ UNCHANGED outbox
     ELSE /\ outbox' = [outbox EXCEPT ![w] =
                  @ \o Tagged(Posted[Head(inbox[w]).config], Head(inbox[w]).search)]
          /\ inbox' = [inbox EXCEPT ![w] = Tail(@)]
  /\ UNCHANGED <<workers, topN, simResults, simError, simRunning, simProgress,
                 simEstimate, searches, handler, cacheStore, pendingSaves>>
  /\ UNCHANGED <<dbVersion, applied>>

RECURSIVE SumProgress(_, _)
SumProgress(progressMap, ws) ==
  IF ws = {} THEN ZeroD
  ELSE LET w == CHOOSE x \in ws : TRUE
       IN  AddD(progressMap[w], SumProgress(progressMap, ws \ {w}))

\* worker.onmessage of search s on worker w, for the response at the head
\* of the worker's outbox.  n is what the form field topN holds by then: its
\* only reader besides handleSimulate is the merge, so the user's edits
\* since the click show here and nowhere else.
OnResponse(s, w, response, n) ==
  IF response.type = "progress"
  THEN LET progressMap == [x \in DOMAIN searches[s].progressMap \cup {w} |->
                             IF x = w THEN response.progress
                             ELSE searches[s].progressMap[x]]
       IN  /\ searches' = [searches EXCEPT ![s].progressMap = progressMap]
           /\ simProgress' = DivD(SumProgress(progressMap, DOMAIN progressMap),
                                  Dec(workers))
           /\ simEstimate' = response.estimate * workers
           /\ UNCHANGED <<topN, simResults, simError, simRunning, pendingSaves>>
  ELSE IF response.type = "partial_result"
  THEN /\ simResults' = simResults \o response.results
       /\ UNCHANGED <<topN, simError, simRunning, simProgress, simEstimate, searches,
                      pendingSaves>>
  ELSE IF response.type = "result"
  THEN LET workerResults == [searches[s].workerResults EXCEPT ![w] = response.results]
           activeWorkers == searches[s].activeWorkers - 1
       IN  IF activeWorkers = 0
           THEN /\ searches' = [searches EXCEPT
                     ![s].workerResults = workerResults,
                     ![s].activeWorkers = activeWorkers,
                     ![s].state = "finalized",
                     ![s].merges = @ + 1,
                     ![s].final = MergedResults(workerResults, n)]
                /\ topN' = n
                /\ simResults' = MergedResults(workerResults, topN')
                /\ simRunning' = FALSE
                /\ simProgress' = Dec(1)
                /\ IF Len(simResults') = 0
                   THEN /\ simError' = "Tidak ditemukan hasil dalam toleransi yang ditentukan."
                        /\ UNCHANGED pendingSaves
                   ELSE /\ pendingSaves' =
                             Append(pendingSaves, [config  |-> searches[s].baseConfig,
                                                   results |-> simResults'])
                        /\ UNCHANGED simError
                /\ UNCHANGED simEstimate
           ELSE /\ searches' = [searches EXCEPT
                     ![s].workerResults = workerResults,
                     ![s].activeWorkers = activeWorkers]
                /\ UNCHANGED <<topN, simResults, simError, simRunning, simProgress,
                               simEstimate, pendingSaves>>
  ELSE /\ simError' = response.message
       /\ simRunning' = FALSE
       /\ UNCHANGED <<topN, simResults, simProgress, simEstimate, searches,
                      pendingSaves>>

\* a response reaches the page: the handler installed on the worker runs
Deliver(w, n) ==
  /\ outbox[w] # <<>>
  /\ handler[w] # 0
  /\ OnResponse(handler[w], w, Head(outbox[w]), n)
  /\ outbox' = [outbox EXCEPT ![w] = Tail(@)]
  /\ UNCHANGED <<workers, handler, inbox, isCancelled, cacheStore>>
  /\ UNCHANGED <<dbVersion, applied>>

\* a saveToCache whose failure reaches the page as an error
CacheSaveSurfacesFailure(outcome) ==
  /\ pendingSaves # <<>>
  /\ cacheStore' = saveToCache(openDB(cacheStore, dbVersion, outcome).store,
                               Head(pendingSaves).config,
                               Head(pendingSaves).results, outcome)
  /\ dbVersion' = openDB(cacheStore, dbVersion, outcome).version
  /\ pendingSaves' = Tail(pendingSaves)
  /\ simError' = IF outcome = "ok" THEN simError ELSE "Failed to save to cache"
  /\ UNCHANGED <<workers, topN, simResults, simRunning, simProgress,
                 simEstimate, searches, handler, inbox, isCancelled, outbox>>
  /\ UNCHANGED applied

\* a saveToCache call completes
CacheSave(outcome) ==
  /\ pendingSaves # <<>>
  /\ cacheStore' = saveToCache(openDB(cacheStore, dbVersion, outcome).store,
                               Head(pendingSaves).config,
                               Head(pendingSaves).results, outcome)
  /\ dbVersion' = openDB(cacheStore, dbVersion, outcome).version
  /\ pendingSaves' = Tail(pendingSaves)
  /\ UNCHANGED <<workers, topN, simResults, simError, simRunning, simProgress,
                 simEstimate, searches, handler, inbox, isCancelled, outbox>>
  /\ UNCHANGED applied

Next ==
  \/ Mount
  \/ \E f \in Forms : HandleSimulate(f)
  \/ \E s \in 1..MaxSearches, outcome \in CacheOutcomes : CacheGet(s, outcome)
  \/ HandleCancel
  \/ \E w \in WorkerIds : WorkerCancel(w)
  \/ \E w \in WorkerIds : WorkerStart(w)
  \/ \E w \in WorkerIds, n \in TopNs : Deliver(w, n)
  \/ \E outcome \in CacheOutcomes : CacheSave(outcome)

Spec == Init /\ [][Next]_vars

\* one search, over every form
SimulateOnce(f) == searches = <<>> /\ HandleSimulate(f)

NextSingle ==
  \/ Mount
  \/ \E f \in SingleForms : SimulateOnce(f)
  \/ \E s \in 1..MaxSearches, outcome \in CacheOutcomes : CacheGet(s, outcome)
  \/ HandleCancel
  \/ \E w \in WorkerIds : WorkerCancel(w)
  \/ \E w \in WorkerIds : WorkerStart(w)
  \/ \E w \in WorkerIds, n \in TopNs : Deliver(w, n)
  \/ \E outcome \in CacheOutcomes : CacheSave(outcome)

SpecSingle == Init /\ [][NextSingle]_vars

\* one search, over the forms of Scenario C
NextCap ==
  \/ Mount
  \/ \E f \in CapForms : SimulateOnce(f)
  \/ \E s \in 1..MaxSearches, outcome \in CacheOutcomes : CacheGet(s, outcome)
  \/ HandleCancel
  \/ \E w \in WorkerIds : WorkerCancel(w)
  \/ \E w \in WorkerIds : WorkerStart(w)
  \/ \E w \in WorkerIds, n \in TopNs : Deliver(w, n)
  \/ \E outcome \in CacheOutcomes : CacheSave(outcome)

SpecCap == Init /\ [][NextCap]_vars

\* one search, over the forms with a failing shard
NextFault ==
  \/ Mount
  \/ \E f \in FaultForms : SimulateOnce(f)
  \/ \E s \in 1..MaxSearches, outcome \in CacheOutcomes : CacheGet(s, outcome)
  \/ HandleCancel
  \/ \E w \in WorkerIds : WorkerCancel(w)
  \/ \E w \in WorkerIds : WorkerStart(w)
  \/ \E w \in WorkerIds, n \in TopNs : Deliver(w, n)
  \/ \E outcome \in CacheOutcomes : CacheSave(outcome)

SpecFault == Init /\ [][NextFault]_vars

\* a caller posts {type: 'start', config} to a worker that has no start in
\* its queue and whose responses have been received
PostStart(w, config) ==
  /\ \A m \in { inbox[w][k] : k \in 1..Len(inbox[w]) } : m.type # "start"
  /\ Len(inbox[w]) <= 1
  /\ outbox[w] = <<>>
  /\ inbox' = [inbox EXCEPT ![w] =
                 Append(@, [type |-> "start", config |-> config, search |-> 0])]
  /\ UNCHANGED <<workers, topN, simResults, simError, simRunning, simProgress,
                 simEstimate, searches, handler, isCancelled, outbox, cacheStore,
                 pendingSaves>>
  /\ UNCHANGED <<dbVersion, applied>>

\* a caller posts {type: 'cancel'} to a worker, at any time
PostCancel(w) ==
  /\ Len(inbox[w]) <= 1
  /\ \A m \in { inbox[w][k] : k \in 1..Len(inbox[w]) } : m.type # "cancel"
  /\ inbox' = [inbox EXCEPT ![w] = Append(@, [type |-> "cancel"])]
  /\ UNCHANGED <<workers, topN, simResults, simError, simRunning, simProgress,
                 simEstimate, searches, handler, isCancelled, outbox, cacheStore,
                 pendingSaves>>
  /\ UNCHANGED <<dbVersion, applied>>

\* the caller receives the response at the head of the worker's outbox
Receive(w) ==
  /\ outbox[w] # <<>>
  /\ outbox' = [outbox EXCEPT ![w] = Tail(@)]
  /\ UNCHANGED <<workers, topN, simResults, simError, simRunning, simProgress,
                 simEstimate, searches, handler, inbox, isCancelled, cacheStore,
                 pendingSaves>>
  /\ UNCHANGED <<dbVersion, applied>>

\* self.onmessage, request.type === 'start', over the engine that prunes
WorkerStartPruned(w) ==
  /\ inbox[w] # <<>>
  /\ Head(inbox[w]).type = "start"
  /\ isCancelled' = [isCancelled EXCEPT ![w] = FALSE]
  /\ outbox' = [outbox EXCEPT ![w] =
                  @ \o Tagged(PrunedOnStart(Head(inbox[w]), FALSE), Head(inbox[w]).search)]
  /\ inbox' = [inbox EXCEPT ![w] = Tail(@)]
  /\ UNCHANGED <<workers, topN, simResults, simError, simRunning, simProgress,
                 simEstimate, searches, handler, cacheStore, pendingSaves>>
  /\ UNCHANGED <<dbVersion, applied>>

NextPruned ==
  \/ \E w \in WorkerIds, config \in PrunedConfigs : PostStart(w, config)
  \/ \E w \in WorkerIds : PostCancel(w)
  \/ \E w \in WorkerIds : WorkerStartPruned(w)
  \/ \E w \in WorkerIds : WorkerCancel(w)
  \/ \E w \in WorkerIds : Receive(w)

SpecPruned == Init /\ [][NextPruned]_vars

\* the worker alone, under the start requests of the two scenarios
NextScenario ==
  \/ \E w \in WorkerIds, config \in ScenarioConfigs : PostStart(w, config)
  \/ \E w \in WorkerIds : PostCancel(w)
  \/ \E w \in WorkerIds : WorkerStart(w)
  \/ \E w \in WorkerIds : WorkerCancel(w)
  \/ \E w \in WorkerIds : Receive(w)

SpecScenario == Init /\ [][NextScenario]_vars

\* the worker alone, under start and cancel requests of any caller
NextProbe ==
  \/ \E w \in WorkerIds, config \in ProbeConfigs : PostStart(w, config)
  \/ \E w \in WorkerIds : PostCancel(w)
  \/ \E w \in WorkerIds : WorkerStart(w)
  \/ \E w \in WorkerIds : WorkerCancel(w)
  \/ \E w \in WorkerIds : Receive(w)

SpecProbe == Init /\ [][NextProbe]_vars

(***************************************************************************)
(* The functions of the engine called on their own, over bounded sets of   *)
(* arguments.  What a function returns does not depend on the calls made   *)
(* before, so a behaviour makes one call.                                  *)
(***************************************************************************)
NoCallYet == applied.op = "none"

\* unit prices, quantities and discounts of up to three digits
CalcPrices == { Canon(c, e) : c \in {1, 2, 5, 41, 123}, e \in {-2, -1, 0} }

CalcQuantities == { Dec(1), Dec(2), Dec(3), Dec(20) }

CalcDiscounts == { ZeroD, Canon(5, -1), Dec(1), Dec(2) }

CalcTransactions ==
  [unitPrice : CalcPrices, quantity : CalcQuantities, discount : CalcDiscounts]

\* calculateTransactionPpn(transaction)
Evaluate(transaction) ==
  /\ NoCallYet
  /\ applied' = [op |-> "calculateTransactionPpn", transaction |-> transaction,
                 value |-> calculateTransactionPpn(transaction)]
  /\ UNCHANGED <<workers, topN, simResults, simError, simRunning, simProgress,
                 simEstimate, searches, handler, inbox, isCancelled, outbox,
                 cacheStore, pendingSaves, dbVersion>>

CalcTargets == { Canon(11, -2), Canon(99, -2), Canon(11, -1), Dec(1), Canon(55, -1) }

\* the record of a call of an inverse solver: the triple completed with the
\* solved value, and what the evaluator returns for it
Solved(op, targetPpn, transaction) ==
  [op |-> op, targetPpn |-> targetPpn, transaction |-> transaction,
   value |-> calculateTransactionPpn(transaction)]

\* calculateRequiredUnitPrice(targetPpn, quantity, discount)
SolvePrice(targetPpn, quantity, discount) ==
  /\ NoCallYet
  /\ applied' = Solved("calculateRequiredUnitPrice", targetPpn,
                       [unitPrice |-> calculateRequiredUnitPrice(targetPpn, quantity,
                                                                 discount),
                        quantity  |-> quantity,
                        discount  |-> discount])
  /\ UNCHANGED <<workers, topN, simResults, simError, simRunning, simProgress,
                 simEstimate, searches, handler, inbox, isCancelled, outbox,
                 cacheStore, pendingSaves, dbVersion>>

\* calculateRequiredDiscount(targetPpn, unitPrice, quantity)
SolveDiscount(targetPpn, unitPrice, quantity) ==
  /\ NoCallYet
  /\ applied' = Solved("calculateRequiredDiscount", targetPpn,
                       [unitPrice |-> unitPrice,
                        quantity  |-> quantity,
                        discount  |-> calculateRequiredDiscount(targetPpn, unitPrice,
                                                                quantity)])
  /\ UNCHANGED <<workers, topN, simResults, simError, simRunning, simProgress,
                 simEstimate, searches, handler, inbox, isCancelled, outbox,
                 cacheStore, pendingSaves, dbVersion>>

\* calculateRequiredQuantity(targetPpn, unitPrice, discount)
SolveQuantity(targetPpn, unitPrice, discount) ==
  /\ NoCallYet
  /\ applied' = Solved("calculateRequiredQuantity", targetPpn,
                       [unitPrice |-> unitPrice,
                        quantity  |-> calculateRequiredQuantity(targetPpn, unitPrice,
                                                                discount),
                        discount  |-> discount])
  /\ UNCHANGED <<workers, topN, simResults, simError, simRunning, simProgress,
                 simEstimate, searches, handler, inbox, isCancelled, outbox,
                 cacheStore, pendingSaves, dbVersion>>

\* the transactions, the references and the weights of the score
ScoredTransactions ==
  { t \in CalcTransactions : t.unitPrice \in {Dec(1), Dec(5), Canon(41, -1)} }

ScoredTargets == { Canon(99, -2), Canon(55, -1) }

CalcReferences ==
  { [unitPrice |-> Dec(5), quantity |-> quantity, discount |-> discount] :
      quantity \in {Dec(2), Dec(3)}, discount \in {ZeroD, Dec(1)} }


\* createResult(transaction, targetPpn, reference, alpha, beta)
Score(transaction, targetPpn, reference, a, b) ==
  /\ NoCallYet
  /\ applied' = [op |-> "createResult", transaction |-> transaction,
                 targetPpn |-> targetPpn, reference |-> reference,
                 alpha |-> a, beta |-> b,
                 value |-> createResult(transaction, targetPpn, reference, a, b)]
  /\ UNCHANGED <<workers, topN, simResults, simError, simRunning, simProgress,
                 simEstimate, searches, handler, inbox, isCancelled, outbox,
                 cacheStore, pendingSaves, dbVersion>>

\* the configurations of the calls of the process functions: whole steps
\* and steps of a hundredth, with and without a tolerance
ProcessConfigs ==
  { [deserializeConfig(ProbeBase) EXCEPT
       !.targetPpn = t, !.tolerance = tol, !.discountMax = Dec(2),
       !.quantityMax = Dec(4), !.priceStep = step, !.discountStep = step] :
      t \in {Canon(546, -4), Canon(5, -1), Canon(99, -2)},
      tol \in {ZeroD, Canon(1, -1)}, step \in {Canon(1, -2), Dec(1)} }

ProcessOps == {"processQtyUnitPrice", "processPriceDiscount", "processQtyDiscount"}

\* the two walked values of a call: (quantity, unitPrice), (unitPrice,
\* discount) or (quantity, discount)
ProcessArgs(op) ==
  IF op = "processQtyUnitPrice" THEN {Dec(1), Dec(2)} \X {Canon(5, -1), Dec(5)}
  ELSE IF op = "processPriceDiscount" THEN {Canon(5, -1), Dec(5)} \X {ZeroD, Dec(1)}
  ELSE {Dec(1), Dec(2)} \X {ZeroD, Dec(1)}

\* one call of a process function of runSimulation on a fresh walk: the
\* results it pushes
Process(op, config, a, b) ==
  /\ NoCallYet
  /\ applied' = [op |-> op, config |-> config, a |-> a, b |-> b,
                 value |-> (IF op = "processQtyUnitPrice"
                            THEN processQtyUnitPrice(config, WalkStart, a, b)
                            ELSE IF op = "processPriceDiscount"
                            THEN processPriceDiscount(config, WalkStart, a, b)
                            ELSE processQtyDiscount(config, WalkStart, a, b)).results]
  /\ UNCHANGED <<workers, topN, simResults, simError, simRunning, simProgress,
                 simEstimate, searches, handler, inbox, isCancelled, outbox,
                 cacheStore, pendingSaves, dbVersion>>

\* the grids [min, max, step] of the calls of generatePriorityOrder: whole
\* and fractional steps, a single value, and grids at the top of the
\* working precision
TopOfPrecision == Pow10(Precision) - 1

OrderQtyGrids ==
  { <<Dec(1), Dec(4), Dec(1)>>, <<Dec(2), Dec(2), Dec(1)>>, <<Dec(1), Dec(5), Dec(2)>>,
    <<Dec(TopOfPrecision), Dec(TopOfPrecision + 1), Dec(1)>> }

OrderDiscountGrids ==
  { <<ZeroD, Dec(2), Dec(1)>>, <<ZeroD, Dec(1), Canon(5, -1)>>, <<ZeroD, ZeroD, Dec(1)>>,
    <<Canon(TopOfPrecision - 4, -1), Canon(TopOfPrecision + 11, -1), Canon(5, -1)>> }

\* the pairs a generator yields from the two lists, quantity-major
YieldedPairs(order) ==
  IF Len(order.discountValues) = 0 THEN <<>>
  ELSE [k \in 1..(Len(order.qtyValues) * Len(order.discountValues)) |->
          <<order.qtyValues[((k - 1) \div Len(order.discountValues)) + 1],
            order.discountValues[((k - 1) % Len(order.discountValues)) + 1]>>]

\* generatePriorityOrder drained: whether the generator comes to an end,
\* and the pairs it yields if it does
PriorityOrder(refQty, qty, discount) ==
  /\ NoCallYet
  /\ applied' =
       [op |-> "generatePriorityOrder", refQty |-> refQty, qty |-> qty,
        discount |-> discount,
        returns |-> ~GridStalls(qty[1], qty[2], qty[3])
                    /\ ~GridStalls(discount[1], discount[2], discount[3]),
        value |-> IF \/ GridStalls(qty[1], qty[2], qty[3])
                     \/ GridStalls(discount[1], discount[2], discount[3])
                  THEN <<>>
                  ELSE YieldedPairs(generatePriorityOrder(refQty, qty[1], qty[2], qty[3],
                                       discount[1], discount[2], discount[3]))]
  /\ UNCHANGED <<workers, topN, simResults, simError, simRunning, simProgress,
                 simEstimate, searches, handler, inbox, isCancelled, outbox,
                 cacheStore, pendingSaves, dbVersion>>

NextCalc ==
  \/ \E refQty \in {Dec(0), Dec(2), Dec(3)}, qty \in OrderQtyGrids,
        discount \in OrderDiscountGrids : PriorityOrder(refQty, qty, discount)
  \/ \E op \in ProcessOps, config \in ProcessConfigs :
       \E args \in ProcessArgs(op) : Process(op, config, args[1], args[2])
  \/ \E transaction \in CalcTransactions : Evaluate(transaction)
  \/ \E targetPpn \in CalcTargets, quantity \in CalcQuantities,
        discount \in CalcDiscounts : SolvePrice(targetPpn, quantity, discount)
  \/ \E targetPpn \in CalcTargets, unitPrice \in CalcPrices,
        quantity \in CalcQuantities : SolveDiscount(targetPpn, unitPrice, quantity)
  \/ \E targetPpn \in CalcTargets, unitPrice \in CalcPrices,
        discount \in CalcDiscounts : SolveQuantity(targetPpn, unitPrice, discount)
  \/ \E transaction \in ScoredTransactions, targetPpn \in ScoredTargets,
        reference \in CalcReferences, a \in {ZeroD, Dec(1)}, b \in {ZeroD, Canon(1, -1)} :
          Score(transaction, targetPpn, reference, a, b)

SpecCalc == Init /\ [][NextCalc]_vars

(***************************************************************************)
(* Properties.                                                             *)
(***************************************************************************)
Range(seq) == { seq[k] : k \in 1..Len(seq) }

\* the responses posted and not yet delivered
Responses == UNION { Range(outbox[w]) : w \in WorkerIds }

CarriesResults(m) == m.type \in {"partial_result", "result"}

\* the step runs the merge block of search s
Finalizes(s) == searches'[s].merges > searches[s].merges

\* the responses worker w posts in the step
PostedInStep(w) ==
  { outbox'[w][k] : k \in (Len(outbox[w]) + 1)..Len(outbox'[w]) }

ValidTransaction(t) ==
  /\ GtD(t.unitPrice, ZeroD)
  /\ GtD(t.quantity, ZeroD)
  /\ GteD(t.discount, ZeroD)
  /\ LtD(t.discount, MulD(t.unitPrice, t.quantity))

\* C1: every result a worker returns or streams, and every result the page
\* holds, is a valid transaction: unitPrice > 0, quantity > 0 and
\* 0 <= discount < unitPrice * quantity.
C1_ResultsAreValid ==
  /\ \A m \in Responses :
       CarriesResults(m) => \A r \in Range(m.results) : ValidTransaction(r.transaction)
  /\ \A r \in Range(simResults) : ValidTransaction(r.transaction)

\* a price-locked search (the discount is solved) has been finalized with
\* results
C1_Witness ==
  \E s \in 1..Len(searches) :
    /\ searches[s].state = "finalized"
    /\ searches[s].baseConfig.priceMin = searches[s].baseConfig.priceMax
    /\ ~simRunning
    /\ simResults # <<>>

WithinTolerance(r, config) ==
  LteD(AbsD(SubD(calculateTransactionPpn(r.transaction), config.targetPpn)),
       config.tolerance)

\* C2: every result a worker returns or streams for a search, and every
\* result the page holds of it, has |PPN(transaction) - target| <= tolerance,
\* PPN being the evaluator and target and tolerance those of the search.
C2_ResultsWithinTolerance ==
  /\ \A m \in Responses :
       CarriesResults(m) =>
         \A r \in Range(m.results) : WithinTolerance(r, searches[m.search].baseConfig)
  /\ \A r \in Range(simResults) : WithinTolerance(r, searches[1].baseConfig)

\* a result that is near the target and not on it has been streamed
C2_Witness ==
  \E m \in Responses :
    /\ m.type = "partial_result"
    /\ \E r \in Range(m.results) : ~IsZeroD(r.ppnDifference)

\* C3: the list a worker returns has at most config.topNResults entries, and
\* the list the merge installs has at most the topN the search was
\* configured with.
C3_AtMostTopN ==
  [][/\ \A w \in WorkerIds : \A m \in PostedInStep(w) :
          m.type = "result" =>
            Len(m.results) <= searches[m.search].baseConfig.topNResults
     /\ \A s \in 1..Len(searches) :
          Finalizes(s) => Len(simResults') <= searches[s].baseConfig.topNResults
    ]_vars

Perfect(r) == IsZeroD(r.ppnDifference)

Ordered(rs) ==
  \A i, j \in 1..Len(rs) :
    i < j => /\ Perfect(rs[j]) => Perfect(rs[i])
             /\ (Perfect(rs[i]) <=> Perfect(rs[j])) => LteD(rs[i].score, rs[j].score)

\* C4: in the list the merge installs, every zero-difference result comes
\* before every other result, and within each of the two groups the score
\* does not decrease.
C4_MergedOrder ==
  [][\A s \in 1..Len(searches) : Finalizes(s) => Ordered(simResults')]_vars

\* a merged list, still to be saved, in which a zero-difference result
\* stands before a result of lower score
C4_Witness ==
  /\ pendingSaves # <<>>
  /\ pendingSaves[Len(pendingSaves)].results = simResults
  /\ \E i, j \in 1..Len(simResults) :
       /\ i < j
       /\ Perfect(simResults[i])
       /\ ~Perfect(simResults[j])
       /\ GtD(simResults[i].score, simResults[j].score)

CanonicalKey(r) ==
  createTransactionKey(r.transaction.unitPrice, r.transaction.quantity,
                       r.transaction.discount)

\* C5: no two results of the list the merge installs share a canonical key.
C5_MergedKeysDistinct ==
  [][\A s \in 1..Len(searches) :
       Finalizes(s) =>
         \A i, j \in 1..Len(simResults') :
           i # j => CanonicalKey(simResults'[i]) # CanonicalKey(simResults'[j])
    ]_vars

\* C6: a worker that handles a start with a cancel right behind it in its
\* queue posts neither a result nor an error for that start.
C6_CancelledStartPostsNoResult ==
  [][\A w \in WorkerIds :
       ( /\ Len(inbox[w]) >= 2
         /\ inbox[w][1].type = "start"
         /\ inbox[w][2].type = "cancel"
         /\ inbox'[w] = Tail(inbox[w]) )
       => \A m \in PostedInStep(w) : m.type \notin {"result", "error"}
    ]_vars

\* C7: the merge block of a search runs only when every start of the search
\* has been handled and every result posted for the search has been
\* delivered, and it runs once.
C7_FinalizeAfterEveryShard ==
  [][\A s \in 1..Len(searches) :
       Finalizes(s) =>
         /\ searches[s].merges = 0
         /\ \A w \in WorkerIds :
              /\ \A m \in Range(inbox'[w]) : m.type = "start" => m.search # s
              /\ \A m \in Range(outbox'[w]) : m.type = "result" => m.search # s
    ]_vars

\* the configuration of the start the step posts to worker w
StartedConfig(w) == inbox'[w][Len(inbox'[w])].config

\* C8: the quantity ranges of the starts a search posts are contiguous and
\* disjoint, lie inside [quantityMin, quantityMax] and cover it.
C8_ShardsPartitionRange ==
  [][\A s \in 1..Len(searches) :
       (searches[s].state = "await" /\ searches'[s].state = "running") =>
         LET b == searches[s].baseConfig
         IN  /\ StartedConfig(1).quantityMin = b.quantityMin
             /\ StartedConfig(workers).quantityMax = b.quantityMax
             /\ \A w \in 1..workers :
                  /\ b.quantityMin <= StartedConfig(w).quantityMin
                  /\ StartedConfig(w).quantityMin <= StartedConfig(w).quantityMax
                  /\ StartedConfig(w).quantityMax <= b.quantityMax
             /\ \A w \in 1..(workers - 1) :
                  StartedConfig(w + 1).quantityMin = StartedConfig(w).quantityMax + 1
    ]_vars

\* a start for search s is posted in the step
StartPosted(s) ==
  \E w \in WorkerIds : \E k \in (Len(inbox[w]) + 1)..Len(inbox'[w]) :
    inbox'[w][k].type = "start" /\ inbox'[w][k].search = s

\* C9: when the lookup of a search finds its fingerprint, the stored list
\* becomes simResults, the search is over and no start is posted; and a start
\* of a search is posted only in the step that ends its lookup.
C9_HitStartsNoWorker ==
  [][\A s \in 1..Len(searches) :
       /\ (searches[s].state = "await" /\ searches'[s].state = "cached") =>
            /\ inbox' = inbox
            /\ hashConfig(searches[s].baseConfig) \in DOMAIN cacheStore
            /\ simResults' = cacheStore[hashConfig(searches[s].baseConfig)]
            /\ ~simRunning'
       /\ StartPosted(s) =>
            searches[s].state = "await" /\ searches'[s].state = "running"
    ]_vars

\* a search has ended on the list the cache held, no start of it anywhere
C9_Witness ==
  \E s \in 1..Len(searches) :
    /\ searches[s].state = "cached"
    /\ simResults # <<>>
    /\ ~simRunning
    /\ \A w \in WorkerIds : \A m \in Range(inbox[w]) :
         m.type = "start" => m.search # s

\* C10: the lookup of a search ends either on the stored list or, whether
\* it failed or found nothing, with a start posted to every worker.
C10_ReadFaultIsAMiss ==
  [][\A s \in 1..Len(searches) :
       (searches[s].state = "await" /\ searches'[s].state # "await") =>
         \/ /\ hashConfig(searches[s].baseConfig) \in DOMAIN cacheStore
            /\ simResults' = cacheStore[hashConfig(searches[s].baseConfig)]
            /\ ~simRunning'
         \/ \A w \in 1..workers :
              inbox'[w] = Append(inbox[w], StartRequest(searches[s].baseConfig, w, s))
    ]_vars

\* C11: the step in which a saveToCache call completes, whether the save
\* worked or failed, leaves the result list, the error and the running flag
\* as they were.
C11_SaveNeverChangesOutcome ==
  [][(pendingSaves # <<>> /\ pendingSaves' = Tail(pendingSaves)) =>
       /\ simResults' = simResults
       /\ simError' = simError
       /\ simRunning' = simRunning
    ]_vars

\* a search was finalized with results and its save has failed: nothing is
\* stored, and the page shows the list and no error
C11_Witness ==
  /\ Len(searches) = 1
  /\ searches[1].state = "finalized"
  /\ pendingSaves = <<>>
  /\ DOMAIN cacheStore = {}
  /\ simResults # <<>>
  /\ simError = "null"
  /\ ~simRunning

\* the lookup of search s ends in the step
LookupEnds(s) == searches[s].state = "await" /\ searches'[s].state # "await"

\* by now another search, s0, has finalized with a list that is not empty,
\* under the configuration search s has
FinalizedBefore(s0, s) ==
  /\ s0 # s
  /\ searches[s0].state = "finalized"
  /\ searches[s0].final # <<>>
  /\ searches[s0].baseConfig = searches[s].baseConfig

\* C12 as stated: a search whose configuration another search has finalized
\* with a list that is not empty by the time its lookup ends hits the cache,
\* and its list is the list of that search.
C12_SecondInvocationHits ==
  [][\A s \in 1..Len(searches) : \A s0 \in 1..Len(searches) :
       (LookupEnds(s) /\ FinalizedBefore(s0, s)) =>
         /\ searches'[s].state = "cached"
         /\ simResults' = searches[s0].final
    ]_vars

\* C12: a search that hits the cache installs the list another search of
\* the same configuration has finalized with, entry for entry.
C12_HitReturnsFinalizedList ==
  [][\A s \in 1..Len(searches) :
       (LookupEnds(s) /\ searches'[s].state = "cached") =>
         \E s0 \in 1..Len(searches) :
           /\ FinalizedBefore(s0, s)
           /\ simResults' = searches[s0].final
    ]_vars

\* the second search, with the configuration of the first, has hit the
\* cache and shows the list of several results the first finalized with
C12_Witness ==
  /\ Len(searches) = 2
  /\ searches[1].state = "finalized"
  /\ searches[2].state = "cached"
  /\ searches[2].baseConfig = searches[1].baseConfig
  /\ Len(simResults) > 1
  /\ simResults = searches[1].final

\* the estimate of the whole configuration is above the cap
OverCap(baseConfig) ==
  estimateCombinations(deserializeConfig(baseConfig)) > MaxCombinations

\* C13: for a search whose configuration has an estimate of 1_000_000_001,
\* no start is posted to a worker, no worker posts results, and the search is
\* not finalized.
C13_OverCapStartsNoWorker ==
  \A s \in 1..Len(searches) :
    (/\ OverCap(searches[s].baseConfig)
     /\ estimateCombinations(deserializeConfig(searches[s].baseConfig)) = 1000000001) =>
      /\ \A w \in WorkerIds : \A m \in Range(inbox[w]) : m.type # "start"
      /\ \A m \in Responses : ~CarriesResults(m)
      /\ searches[s].state # "finalized"

\* such a search has been finalized with results and no error
C13_OverCapFinalized ==
  \E s \in 1..Len(searches) :
    /\ OverCap(searches[s].baseConfig)
    /\ validateConfig(deserializeConfig(searches[s].baseConfig)) # "null"
    /\ searches[s].state = "finalized"
    /\ simResults # <<>>
    /\ simError = "null"

\* worker w handles a start request in the step
HandlesStart(w) ==
  /\ inbox[w] # <<>>
  /\ Head(inbox[w]).type = "start"
  /\ inbox'[w] = Tail(inbox[w])

\* the conditions under which a configuration is to be rejected
MustBeRejected(config) ==
  \/ ~ValidTransaction(config.referenceTransaction)
  \/ LteD(config.targetPpn, ZeroD)
  \/ LtD(config.tolerance, ZeroD)
  \/ LteD(config.quantityMin, ZeroD)
  \/ GtD(config.quantityMin, config.quantityMax)
  \/ LteD(config.quantityStep, ZeroD)
  \/ LteD(config.priceStep, ZeroD)
  \/ LteD(config.discountStep, ZeroD)

\* C14: for a start whose configuration has an invalid reference
\* transaction, target <= 0, tolerance < 0, quantityMin <= 0, quantityMin >
\* quantityMax or a step <= 0, validateConfig returns an error and the worker
\* posts that error and nothing else.
C14_InvalidConfigIsRejected ==
  [][\A w \in WorkerIds :
       (HandlesStart(w) /\ MustBeRejected(deserializeConfig(Head(inbox[w]).config))) =>
         /\ validateConfig(deserializeConfig(Head(inbox[w]).config)) # "null"
         /\ PostedInStep(w) # {}
         /\ \A m \in PostedInStep(w) : m.type = "error"
    ]_vars

\* the page receives response m of worker w in the step
Delivered(w, m) ==
  /\ outbox[w] # <<>>
  /\ Head(outbox[w]) = m
  /\ outbox'[w] = Tail(outbox[w])
  /\ handler[w] # 0

\* C15: when the error of a shard reaches the page, the search is not
\* finalized and the page holds no result of it; and from a state in which
\* the page shows an error of the search, no step appends results or
\* finalizes it.
C15_ShardFaultIsFatal ==
  [][\A w \in WorkerIds : \A m \in Range(outbox[w]) :
       /\ (Delivered(w, m) /\ m.type = "error") =>
            /\ simResults' = <<>>
            /\ searches'[handler[w]].state # "finalized"
            /\ simError' = m.message
       /\ (Delivered(w, m) /\ simError # "null" /\ m.type # "error") =>
            /\ simResults' = simResults
            /\ ~Finalizes(handler[w])
    ]_vars

\* C16: an error a worker posts for a start is the message validateConfig
\* returns for the configuration of that start, whatever cancels stand
\* before or behind the start in the queue; no response is the error
\* 'Cancelled'.
C16_CancelIsNeverAnError ==
  [][\A w \in WorkerIds :
       /\ HandlesStart(w) =>
            \A m \in PostedInStep(w) :
              m.type = "error" =>
                /\ m.message # "null"
                /\ m.message = validateConfig(deserializeConfig(Head(inbox[w]).config))
       /\ \A m \in Range(outbox'[w]) : m.type = "error" => m.message # "Cancelled"
    ]_vars

\* a worker has handled a start and then the cancel that stood behind it:
\* its flag is set, and what it posted for the start ends in a result
C16_Witness ==
  \E w \in WorkerIds :
    /\ isCancelled[w]
    /\ inbox[w] = <<>>
    /\ outbox[w] # <<>>
    /\ outbox[w][Len(outbox[w])].type = "result"

\* C17: in the walk a worker runs for a start it accepts, no process
\* function is called once perfectCount has reached topNResults, whichever
\* strategy the configuration selects.
C17_WalkStopsAtTopN ==
  [][\A w \in WorkerIds :
       (/\ HandlesStart(w)
        /\ validateConfig(deserializeConfig(Head(inbox[w]).config)) = "null") =>
         Walk(deserializeConfig(Head(inbox[w]).config)).late = 0
    ]_vars

\* the canonical keys of the results a walk has accepted
Accepted(w) == { CanonicalKey(w.results[k]) : k \in 1..Len(w.results) }

\* C18: for a start the worker accepts, the walk with the pruning test
\* accepts the results the same walk accepts without it.
C18_PruningKeepsResults ==
  [][\A w \in WorkerIds :
       (/\ HandlesStart(w)
        /\ validateConfig(deserializeConfig(Head(inbox[w]).config)) = "null") =>
         Accepted(PrunedWalk(deserializeConfig(Head(inbox[w]).config), TRUE))
           = Accepted(PrunedWalk(deserializeConfig(Head(inbox[w]).config), FALSE))
    ]_vars

\* the start request at the head of the inbox of w is handled and carries
\* one of the configurations
HandlesStartOf(w, configs) == HandlesStart(w) /\ Head(inbox[w]).config \in configs

\* the reference triple is among the results, with difference 0 and score 0
HasReference(config, results) ==
  \E k \in 1..Len(results) :
    /\ results[k].transaction = config.referenceTransaction
    /\ results[k].ppnDifference = ZeroD
    /\ results[k].score = ZeroD

\* C19: in scenario A (target = the tax of the reference, tolerance 0, bounds
\* that contain the reference) the reference triple is among the returned
\* results, with ppnDifference 0 and score 0.
C19_ReferenceIsReturned ==
  [][\A w \in WorkerIds :
       HandlesStartOf(w, ScenarioAConfigs) =>
         HasReference(deserializeConfig(Head(inbox[w]).config),
                      runSimulation(deserializeConfig(Head(inbox[w]).config)).results)
    ]_vars

\* the messages the step has appended to the outbox of w
Appended(w) == SubSeq(outbox'[w], Len(outbox[w]) + 1, Len(outbox'[w]))

\* the discount scenario B solves for
ScenarioBDiscount(config) ==
  calculateRequiredDiscount(config.targetPpn, config.priceMin, config.quantityMin)

\* C20: in scenario B the solved discount is negative, the search returns
\* an empty list, and the worker posts a result with no results and no error.
C20_NegativeDiscountGivesEmptyResult ==
  [][\A w \in WorkerIds :
       HandlesStartOf(w, ScenarioBConfigs) =>
         /\ LtD(ScenarioBDiscount(deserializeConfig(Head(inbox[w]).config)), ZeroD)
         /\ runSimulation(deserializeConfig(Head(inbox[w]).config)).results = <<>>
         /\ \A k \in 1..Len(Appended(w)) : Appended(w)[k].type # "error"
         /\ Appended(w) # <<>>
         /\ Appended(w)[Len(Appended(w))].type = "result"
         /\ Appended(w)[Len(Appended(w))].results = <<>>
    ]_vars

\* a worker has answered a start request of scenario B
C20_Witness ==
  \E w \in WorkerIds :
    /\ outbox[w] # <<>>
    /\ outbox[w][Len(outbox[w])].type = "result"
    /\ outbox[w][Len(outbox[w])].results = <<>>

\* arithmetic without rounding, on values of few digits
ExactMul(a, b) == Canon(a.c * b.c, a.e + b.e)

ExactSub(a, b) ==
  Canon(a.c * Pow10(a.e - MinInt(a.e, b.e)) - b.c * Pow10(b.e - MinInt(a.e, b.e)),
        MinInt(a.e, b.e))

\* unitPrice * quantity and the base unitPrice * quantity - discount
ExactSubtotal(t) == ExactMul(t.unitPrice, t.quantity)

ExactBase(t) == ExactSub(ExactSubtotal(t), t.discount)

\* base * 11 / 100
ExactOutput(t) == ExactMul(ExactBase(t), Canon(11, -2))

SigDigits(a) == NumDigits(AbsInt(a.c))

\* C21 as stated: the evaluator returns base * 11 / 100 for every
\* transaction (as the Decimal nearest to it).
C21_OutputIsElevenPercent ==
  applied.op = "calculateTransactionPpn" =>
    applied.value = RoundSig(ExactOutput(applied.transaction).c,
                             ExactOutput(applied.transaction).e)

\* C21: when unitPrice * quantity fits the precision and the base has two
\* digits less than the precision, the evaluator returns base * 11 / 100.
C21_OutputIsElevenPercentOfShortBase ==
  (/\ applied.op = "calculateTransactionPpn"
   /\ SigDigits(ExactSubtotal(applied.transaction)) <= Precision
   /\ SigDigits(ExactBase(applied.transaction)) <= Precision - 2) =>
    applied.value = ExactOutput(applied.transaction)

\* the evaluator has returned the 11% of a short base, discount included
C21_Witness ==
  /\ applied.op = "calculateTransactionPpn"
  /\ SigDigits(ExactSubtotal(applied.transaction)) <= Precision
  /\ SigDigits(ExactBase(applied.transaction)) <= Precision - 2
  /\ applied.transaction.discount # ZeroD
  /\ applied.value = ExactOutput(applied.transaction)
  /\ applied.value # ZeroD

Solvers ==
  {"calculateRequiredUnitPrice", "calculateRequiredDiscount", "calculateRequiredQuantity"}

Residue(a) == AbsD(SubD(a.value, a.targetPpn))

\* target + 11% of unitPrice * quantity: the size of the amounts the round
\* trip computes with
RoundTripScale(a) ==
  AddD(AbsD(a.targetPpn),
       MulD(PPN_RATE, AbsD(MulD(a.transaction.unitPrice, a.transaction.quantity))))

\* no operation of the round trip has rounded: the completed triple has
\* exactly the target as its 11%, and a short base
ExactlySolved(a) ==
  /\ ExactOutput(a.transaction) = a.targetPpn
  /\ SigDigits(ExactSubtotal(a.transaction)) <= Precision
  /\ SigDigits(ExactBase(a.transaction)) <= Precision - 2

DifferenceTerm(a) == AbsD(SubD(calculateTransactionPpn(a.transaction), a.targetPpn))

PriceTerm(a) ==
  MulD(a.alpha, AbsD(SubD(a.transaction.unitPrice, a.reference.unitPrice)))

DiscountTerm(a) ==
  MulD(a.beta, AbsD(SubD(a.transaction.discount, a.reference.discount)))

\* C23: the score is |output - target| + alpha * |price deviation| + beta *
\* |discount deviation|; it is not negative, it is the same for every
\* reference quantity, and it is 0 exactly when the three terms are 0.
C23_ScoreIsWeightedDistance ==
  applied.op = "createResult" =>
    /\ applied.value.ppnDifference = DifferenceTerm(applied)
    /\ applied.value.score =
         AddD(AddD(DifferenceTerm(applied), PriceTerm(applied)), DiscountTerm(applied))
    /\ GteD(applied.value.score, ZeroD)
    /\ \A quantity \in CalcQuantities :
         createResult(applied.transaction, applied.targetPpn,
                      [applied.reference EXCEPT !.quantity = quantity],
                      applied.alpha, applied.beta).score = applied.value.score
    /\ applied.value.score = ZeroD <=>
         /\ DifferenceTerm(applied) = ZeroD
         /\ PriceTerm(applied) = ZeroD
         /\ DiscountTerm(applied) = ZeroD

\* a result has been scored whose three terms are all positive, with a
\* quantity away from the reference's
C23_Witness ==
  /\ applied.op = "createResult"
  /\ DifferenceTerm(applied) # ZeroD
  /\ PriceTerm(applied) # ZeroD
  /\ DiscountTerm(applied) # ZeroD
  /\ applied.transaction.quantity # applied.reference.quantity
  /\ GtD(applied.value.score, DifferenceTerm(applied))

\* v is a whole multiple of step, or min + k * step within the bounds
OnGrid(v, min, max, step) ==
  \/ roundToStep(v, step) = v
  \/ v \in Range(GridValues(min, max, step))

GridQuantized(config, r) ==
  /\ OnGrid(r.transaction.unitPrice, config.priceMin, config.priceMax, config.priceStep)
  /\ OnGrid(r.transaction.quantity, config.quantityMin, config.quantityMax,
            config.quantityStep)
  /\ OnGrid(r.transaction.discount, config.discountMin, config.discountMax,
            config.discountStep)

\* C24: in every result a run returns, the unit price, the quantity and the
\* discount each lie on the grid of their step.
C24_ResultsAreGridQuantized ==
  [][\A w \in WorkerIds :
       (/\ HandlesStart(w)
        /\ validateConfig(deserializeConfig(Head(inbox[w]).config)) = "null") =>
         \A r \in Range(runSimulation(deserializeConfig(Head(inbox[w]).config)).results) :
           GridQuantized(deserializeConfig(Head(inbox[w]).config), r)
    ]_vars

\* the worker w takes the start request at the head of its queue
TakesStart(w) ==
  /\ inbox[w] # <<>>
  /\ Head(inbox[w]).type = "start"
  /\ inbox'[w] # inbox[w]
  /\ Len(inbox'[w]) <= Len(inbox[w])

Terminal(m) == m.type \in {"result", "error"}

\* the messages posted for one start: one terminal message, at the end
OneTerminalLast(posted) ==
  /\ posted # <<>>
  /\ Terminal(posted[Len(posted)])
  /\ \A k \in 1..(Len(posted) - 1) : posted[k].type \in {"progress", "partial_result"}

\* C25: for every start request the worker takes, the handler ends and has
\* posted progress and partial_result messages followed by exactly one
\* terminal message, result or error; for a configuration that fails
\* validation it has posted the error alone.
C25_OneTerminalMessagePerStart ==
  [][\A w \in WorkerIds :
       TakesStart(w) =>
         /\ inbox'[w] = Tail(inbox[w])
         /\ OneTerminalLast(Appended(w))
         /\ validateConfig(deserializeConfig(Head(inbox[w]).config)) # "null" =>
              /\ Len(Appended(w)) = 1
              /\ Appended(w)[1].type = "error"
    ]_vars

\* a saveToCache call is issued in this step
IssuesSave == Len(pendingSaves') > Len(pendingSaves)

\* a list saved by a release with an earlier schema (score, not humanScore)
EarlierList ==
  <<[transaction |-> [unitPrice |-> Dec(5), quantity |-> Dec(2), discount |-> ZeroD],
     score       |-> ZeroD]>>

\* the search of the runs over a database left by an earlier release
UpgradeForms ==
  { Form(5, 2, 0, Canon(1, -1), Canon(1, -1), 0, 10, 0, 2, 1, 4, FALSE, FALSE, TRUE, 5) }

EarlierIds == { hashConfig(BuildBaseConfig(f)) : f \in UpgradeForms }

\* the database as an earlier release left it: a lower version, and an
\* entry under the fingerprint the search will look up
InitUpgrade ==
  /\ workers = 0
  /\ topN = DefaultTopN
  /\ simResults = <<>>
  /\ simError = "null"
  /\ simRunning = FALSE
  /\ simProgress = ZeroD
  /\ simEstimate = 0
  /\ searches = <<>>
  /\ handler = [w \in WorkerIds |-> 0]
  /\ inbox = [w \in WorkerIds |-> <<>>]
  /\ isCancelled = [w \in WorkerIds |-> FALSE]
  /\ outbox = [w \in WorkerIds |-> <<>>]
  /\ cacheStore = [k \in EarlierIds |-> EarlierList]
  /\ pendingSaves = <<>>
  /\ dbVersion \in (DB_VERSION - 2)..(DB_VERSION - 1)
  /\ applied = [op |-> "none"]

NextUpgrade ==
  \/ Mount
  \/ \E f \in UpgradeForms : HandleSimulate(f)
  \/ \E s \in 1..MaxSearches, outcome \in CacheOutcomes : CacheGet(s, outcome)
  \/ HandleCancel
  \/ \E w \in WorkerIds : WorkerCancel(w)
  \/ \E w \in WorkerIds : WorkerStart(w)
  \/ \E w \in WorkerIds, n \in TopNs : Deliver(w, n)
  \/ \E outcome \in CacheOutcomes : CacheSave(outcome)

SpecUpgrade == InitUpgrade /\ [][NextUpgrade]_vars

\* C27: once the database has been opened at DB_VERSION, no entry stored
\* under an earlier version is left in the store, and no lookup is served
\* one: a fingerprint stored earlier is found only after a new put, with
\* the list of that put.
C27_UpgradeClearsTheStore ==
  [][/\ dbVersion' = DB_VERSION =>
          \A id \in DOMAIN cacheStore' : cacheStore'[id] # EarlierList
     /\ \A s \in 1..Len(searches) :
          (LookupEnds(s) /\ searches'[s].state = "cached") =>
             /\ dbVersion' = DB_VERSION
             /\ simResults' # EarlierList
             /\ \E s0 \in 1..Len(searches) :
                  searches[s0].state = "finalized" /\ simResults' = searches[s0].final
    ]_vars

\* the first lookup has opened the database at DB_VERSION and missed the
\* fingerprint stored under the earlier version: the shards are started
C27_Witness ==
  /\ dbVersion = DB_VERSION
  /\ Len(searches) = 1
  /\ hashConfig(searches[1].baseConfig) \in EarlierIds
  /\ searches[1].state = "running"
  /\ cacheStore = EmptyStore
  /\ pendingSaves = <<>>

\* C26: a cache entry is written only from a save that was issued, and a
\* save is issued only by the step in which a search finalizes with a
\* non-empty list: that search was started after a cache miss, the entry
\* is its list under its fingerprint, and no error ended it (the page
\* shows none).
C26_SaveOnlyOnNonEmptyFinalize ==
  [][/\ cacheStore' # cacheStore =>
          pendingSaves # <<>> /\ pendingSaves' = Tail(pendingSaves)
     /\ IssuesSave =>
          \E s \in 1..Len(searches) :
            /\ Finalizes(s)
            /\ searches[s].state = "running"
            /\ searches'[s].final # <<>>
            /\ pendingSaves' = Append(pendingSaves,
                                      [config  |-> searches[s].baseConfig,
                                       results |-> searches'[s].final])
            /\ simError' = "null"
    ]_vars

\* the candidates of a solved value v and a step s
GridCandidates(v, s) ==
  LET r == roundToStep(v, s)
  IN  IF EqD(r, v) THEN {v} ELSE {v, r, AddD(r, s), SubD(r, s)}

\* the candidate transactions of the recorded call of a process function
CandidateTransactions ==
  LET config == applied.config
  IN  IF applied.op = "processQtyUnitPrice"
      THEN { [unitPrice |-> applied.b, quantity |-> applied.a, discount |-> d] :
               d \in GridCandidates(calculateRequiredDiscount(config.targetPpn,
                                                              applied.b, applied.a),
                                    config.discountStep) }
      ELSE IF applied.op = "processPriceDiscount"
      THEN { [unitPrice |-> applied.a, quantity |-> q, discount |-> applied.b] :
               q \in GridCandidates(calculateRequiredQuantity(config.targetPpn,
                                                              applied.a, applied.b),
                                    config.quantityStep) }
      ELSE { [unitPrice |-> u, quantity |-> applied.a, discount |-> applied.b] :
               u \in GridCandidates(calculateRequiredUnitPrice(config.targetPpn,
                                                               applied.a, applied.b),
                                    config.priceStep) }

\* the bounds check of the solved dimension
PassesBounds(config, t) ==
  IF applied.op = "processQtyUnitPrice"
  THEN GteD(t.discount, config.discountMin) /\ LteD(t.discount, config.discountMax)
  ELSE IF applied.op = "processPriceDiscount"
  THEN GteD(t.quantity, config.quantityMin) /\ LteD(t.quantity, config.quantityMax)
  ELSE GteD(t.unitPrice, config.priceMin) /\ LteD(t.unitPrice, config.priceMax)

CandidateWithinTolerance(config, t) ==
  LteD(AbsD(SubD(calculateTransactionPpn(t), config.targetPpn)), config.tolerance)

Pushed == { applied.value[k].transaction : k \in 1..Len(applied.value) }

\* C28: a call of a process function pushes candidates only, and every
\* valid candidate that passes the bounds check is put to the tolerance
\* test: it is pushed exactly when its difference is within the tolerance.
C28_EveryCandidateInBoundsIsEvaluated ==
  applied.op \in ProcessOps =>
    /\ Pushed \subseteq CandidateTransactions
    /\ \A t \in CandidateTransactions :
         (PassesBounds(applied.config, t) /\ validateTransaction(t) = "null") =>
            (t \in Pushed <=> CandidateWithinTolerance(applied.config, t))

\* the largest index of a grid point looked at
MaxGridIndex == 8

\* min + i * step, exactly
GridPoint(grid, i) == ExactSub(grid[1], ExactMul(Dec(-i), grid[3]))

\* { min + i * step <= max }
ExactGrid(grid) ==
  { GridPoint(grid, i) : i \in { j \in 0..MaxGridIndex : LteD(GridPoint(grid, j), grid[2]) } }

\* every point of the grid, and the first one beyond max, is a value of
\* the working precision
Representable(grid) ==
  /\ ~LteD(GridPoint(grid, MaxGridIndex), grid[2])
  /\ \A i \in 0..MaxGridIndex :
       (i = 0 \/ LteD(GridPoint(grid, i - 1), grid[2])) =>
          SigDigits(GridPoint(grid, i)) <= Precision

\* the yielded sequence is a permutation of the product of the two grids
YieldsProductOnce ==
  /\ applied.returns
  /\ { applied.value[k] : k \in 1..Len(applied.value) }
       = ExactGrid(applied.qty) \X ExactGrid(applied.discount)
  /\ \A j, k \in 1..Len(applied.value) : applied.value[j] = applied.value[k] => j = k

\* C30 as stated: for every grid the generator ends and yields every pair
\* of the product of the two grids exactly once, and nothing else.
C30_PriorityOrderIsPermutation ==
  applied.op = "generatePriorityOrder" => YieldsProductOnce

\* C30: when the points of both grids are values of the working precision,
\* the generator ends and yields every pair of the product of the two
\* grids exactly once, and nothing else.
C30_PriorityOrderIsPermutationOfExactGrids ==
  (/\ applied.op = "generatePriorityOrder"
   /\ Representable(applied.qty)
   /\ Representable(applied.discount)) => YieldsProductOnce

\* a call over exact grids whose priority order is not the ascending one
C30_Witness ==
  /\ applied.op = "generatePriorityOrder"
  /\ Representable(applied.qty)
  /\ Representable(applied.discount)
  /\ Len(applied.value) >= 12
  /\ \E k \in 1..(Len(applied.value) - 1) :
       GtD(applied.value[k][1], applied.value[k + 1][1])
  /\ \E k \in 1..(Len(applied.value) - 1) :
       /\ applied.value[k][1] = applied.value[k + 1][1]
       /\ GtD(applied.value[k][2], applied.value[k + 1][2])

\* the results of the partial_result messages among posted, in order
RECURSIVE Streamed(_)
Streamed(posted) ==
  IF posted = <<>> THEN <<>>
  ELSE (IF Head(posted).type = "partial_result" THEN Head(posted).results ELSE <<>>)
       \o Streamed(Tail(posted))

\* the results the walk accepts, in the order of discovery.  A walk that
\* does not end accepts what its first call of processQtyDiscount accepts:
\* every later call is made with a negative discount, which no valid
\* transaction has.
AcceptedInOrder(config) ==
  SerializeAll(IF Hangs(config)
               THEN processQtyDiscount(config, WalkStart, config.quantityMin,
                                       config.discountMin).results
               ELSE Walk(config).results)

\* C29: for a start with a valid configuration, the batches posted hold
\* the accepted results, each once and in the order of discovery; a batch
\* holds between 1 and BATCH_SIZE results; the result message comes last,
\* after every batch, and each of its entries was streamed in a batch.
C29_EveryAcceptedResultIsStreamed ==
  [][\A w \in WorkerIds :
       (/\ TakesStart(w)
        /\ validateConfig(deserializeConfig(Head(inbox[w]).config)) = "null") =>
         /\ Streamed(Appended(w)) = AcceptedInOrder(deserializeConfig(Head(inbox[w]).config))
         /\ \A k \in 1..Len(Appended(w)) :
              /\ Appended(w)[k].type = "partial_result" =>
                   /\ Len(Appended(w)[k].results) \in 1..BATCH_SIZE
                   /\ Appended(w)[Len(Appended(w))].type = "result"
              /\ Appended(w)[k].type = "result" =>
                   /\ k = Len(Appended(w))
                   /\ \A i \in 1..Len(Appended(w)[k].results) :
                        \E j \in 1..Len(Streamed(Appended(w))) :
                          Streamed(Appended(w))[j] = Appended(w)[k].results[i]
    ]_vars

\* |v - center|, exactly
DistanceFrom(v, center) == AbsD(ExactSub(v, center))

\* the quantities are yielded in non-decreasing distance from the reference
\* quantity clamped into the range
QuantitiesNearestFirst ==
  \A j, k \in 1..Len(applied.value) :
    j < k => LteD(DistanceFrom(applied.value[j][1],
                               ClampD(applied.refQty, applied.qty[1], applied.qty[2])),
                  DistanceFrom(applied.value[k][1],
                               ClampD(applied.refQty, applied.qty[1], applied.qty[2])))

\* for each quantity the discounts are yielded in non-decreasing distance
\* from the middle of the discount range
DiscountsNearestToMiddleFirst ==
  \A j, k \in 1..Len(applied.value) :
    (j < k /\ applied.value[j][1] = applied.value[k][1]) =>
       LteD(DistanceFrom(applied.value[j][2],
                         DivD(AddD(applied.discount[1], applied.discount[2]), Dec(2))),
            DistanceFrom(applied.value[k][2],
                         DivD(AddD(applied.discount[1], applied.discount[2]), Dec(2))))

\* the first pair is the pair closest to the reference, whatever discount
\* of the grid the reference transaction has
FirstPairNearestToReference ==
  \A refDiscount \in ExactGrid(applied.discount) :
    \A k \in 1..Len(applied.value) :
      /\ LteD(DistanceFrom(applied.value[1][1], applied.refQty),
              DistanceFrom(applied.value[k][1], applied.refQty))
      /\ LteD(DistanceFrom(applied.value[1][2], refDiscount),
              DistanceFrom(applied.value[k][2], refDiscount))

\* C31: over grids of representable points the priority order yields the
\* quantities nearest to the reference quantity first, for each quantity
\* the discounts nearest to their center first, and so the first pair is
\* the grid pair closest to the quantity and the discount of the reference.
C31_NearestToReferenceFirst ==
  (/\ applied.op = "generatePriorityOrder"
   /\ Representable(applied.qty)
   /\ Representable(applied.discount)) =>
     /\ QuantitiesNearestFirst
     /\ DiscountsNearestToMiddleFirst
     /\ FirstPairNearestToReference

\* min = max in at least two of the three dimensions
TwoLocked(config) ==
  \/ EqD(config.priceMin, config.priceMax) /\ EqD(config.discountMin, config.discountMax)
  \/ EqD(config.priceMin, config.priceMax) /\ EqD(config.quantityMin, config.quantityMax)
  \/ EqD(config.discountMin, config.discountMax)
       /\ EqD(config.quantityMin, config.quantityMax)

\* one call of the process function of the free dimension on the locked
\* pair, from a fresh walk
SinglePoint(config) ==
  IF EqD(config.priceMin, config.priceMax) /\ EqD(config.discountMin, config.discountMax)
  THEN processPriceDiscount(config, WalkStart, config.priceMin, config.discountMin)
  ELSE IF EqD(config.priceMin, config.priceMax)
  THEN processQtyUnitPrice(config, WalkStart, config.quantityMin, config.priceMin)
  ELSE processQtyDiscount(config, WalkStart, config.quantityMin, config.discountMin)

\* C32: for an accepted configuration with two locked dimensions the walk
\* is one call of the process function of the free dimension on the locked
\* pair: it accepts what that call accepts, has seen the keys that call has
\* seen, and has counted at most one pair.
C32_TwoLockedIsOneSolve ==
  [][\A w \in WorkerIds :
       (/\ HandlesStart(w)
        /\ validateConfig(deserializeConfig(Head(inbox[w]).config)) = "null"
        /\ TwoLocked(deserializeConfig(Head(inbox[w]).config))) =>
         /\ Walk(deserializeConfig(Head(inbox[w]).config)).results
              = SinglePoint(deserializeConfig(Head(inbox[w]).config)).results
         /\ Walk(deserializeConfig(Head(inbox[w]).config)).seen
              = SinglePoint(deserializeConfig(Head(inbox[w]).config)).seen
         /\ Walk(deserializeConfig(Head(inbox[w]).config)).count <= 1
    ]_vars

\* a search with the price and the discount locked has been finalized with
\* a result
C32_Witness ==
  /\ Len(searches) = 1
  /\ searches[1].baseConfig.priceMin = searches[1].baseConfig.priceMax
  /\ searches[1].baseConfig.discountMin = searches[1].baseConfig.discountMax
  /\ searches[1].baseConfig.quantityMin < searches[1].baseConfig.quantityMax
  /\ searches[1].state = "finalized"
  /\ searches[1].final # <<>>

\* C33: two searches have the same fingerprint exactly when their
\* configurations agree in every field, and the fingerprint leaves out
\* nothing the result depends on: two finalized searches of one fingerprint
\* have finalized with the same list.
C33_FingerprintDeterminesResult ==
  \A s, s0 \in 1..Len(searches) :
    /\ hashConfig(searches[s].baseConfig) = hashConfig(searches[s0].baseConfig)
         <=> searches[s].baseConfig = searches[s0].baseConfig
    /\ (/\ hashConfig(searches[s].baseConfig) = hashConfig(searches[s0].baseConfig)
        /\ searches[s].state = "finalized"
        /\ searches[s0].state = "finalized") =>
          searches[s].final = searches[s0].final

\* the last progress message among posted reports 1
EndsWithFullProgress(posted) ==
  \E k \in 1..Len(posted) :
    /\ posted[k].type = "progress"
    /\ posted[k].progress = Dec(1)
    /\ \A j \in (k + 1)..Len(posted) : posted[j].type # "progress"

\* C34: for every start whose configuration validateConfig accepts, the
\* run comes to an end: the handler returns, and the last progress it has
\* reported is the final onProgress(1) of runSimulation.
C34_AcceptedRunTerminates ==
  [][\A w \in WorkerIds :
       (/\ TakesStart(w)
        /\ validateConfig(deserializeConfig(Head(inbox[w]).config)) = "null") =>
         /\ ~Hangs(deserializeConfig(Head(inbox[w]).config))
         /\ inbox'[w] = Tail(inbox[w])
         /\ EndsWithFullProgress(Appended(w))
    ]_vars

\* the transaction of r lies inside the bounds of the configuration b the
\* page built from the form
WithinSubmitted(r, b) ==
  /\ GteD(r.transaction.unitPrice, Dec(b.priceMin))
  /\ LteD(r.transaction.unitPrice, Dec(b.priceMax))
  /\ GteD(r.transaction.discount, Dec(b.discountMin))
  /\ LteD(r.transaction.discount, Dec(b.discountMax))
  /\ GteD(r.transaction.quantity, Dec(b.quantityMin))
  /\ LteD(r.transaction.quantity, Dec(b.quantityMax))

\* C35: every result of the list a search finalizes lies inside the bounds
\* of the search's baseConfig: the price, the discount and the quantity
\* between their minimum and maximum, a locked dimension at its one value.
C35_FinalizedWithinSubmittedBounds ==
  [][\A s \in 1..Len(searches) :
       Finalizes(s) =>
         \A k \in 1..Len(searches'[s].final) :
           WithinSubmitted(searches'[s].final[k], searches[s].baseConfig)
    ]_vars

\* response m of worker w, delivered in the step, was produced for a search
\* that ended by a cancel or an error (it is neither finalized nor served
\* from the cache) before the search whose handler receives it was started
StaleDelivered(w, m) ==
  /\ Delivered(w, m)
  /\ m.search \in 1..(handler[w] - 1)
  /\ searches[m.search].state = "running"

\* C36: a response produced for a search that was cancelled or failed does
\* nothing to a later search: the later search's count of outstanding shards,
\* its worker results and its finalized list stay as they are, the displayed
\* list stays as it is, and no save is issued.
C36_NoLeakIntoLaterSearch ==
  [][\A w \in WorkerIds : \A m \in Range(outbox[w]) :
       StaleDelivered(w, m) =>
         /\ searches'[handler[w]].activeWorkers = searches[handler[w]].activeWorkers
         /\ searches'[handler[w]].workerResults = searches[handler[w]].workerResults
         /\ searches'[handler[w]].final = searches[handler[w]].final
         /\ simResults' = simResults
         /\ pendingSaves' = pendingSaves
    ]_vars

\* handleCancel has ended search s: its shards were started, it is the last
\* search, and simRunning is false although the search is not finalized and
\* no error is shown (only handleCancel leaves the page so)
Cancelled(s) ==
  /\ s = Len(searches)
  /\ searches[s].state = "running"
  /\ ~simRunning
  /\ simError = "null"

\* C37: once handleCancel has ended a search, no step runs the merge block
\* of that search: no merged list becomes its final list and no save of its
\* configuration is issued.
C37_CancelledSearchNotFinalized ==
  [][\A s \in 1..Len(searches) :
       Cancelled(s) =>
         /\ ~Finalizes(s)
         /\ searches'[s].state # "finalized"
         /\ \A k \in (Len(pendingSaves) + 1)..Len(pendingSaves') :
              pendingSaves'[k].config # searches[s].baseConfig
    ]_vars

\* the results the shards of search s accept during their walks, as the
\* worker would post them
AcceptedByShards(s) ==
  UNION { { serializeResult(r) :
              r \in Range(Walk(deserializeConfig(
                       workerConfig(searches[s].baseConfig, w - 1, workers))).results) } :
          w \in 1..workers }

\* C38: when a search is finalized, the form field topN holding what the
\* search was configured with, no zero-difference result that a shard
\* accepted is missing from the finalized list while the list holds a result
\* of nonzero difference.
C38_TruncationKeepsPerfectMatches ==
  [][\A s \in 1..Len(searches) :
       (Finalizes(s) /\ topN' = searches[s].baseConfig.topNResults) =>
         \A r \in AcceptedByShards(s) :
           (Perfect(r) /\ r \notin Range(searches'[s].final)) =>
             \A q \in Range(searches'[s].final) : Perfect(q)
    ]_vars

\* the quantities the loops of runSimulation walk for a configuration the
\* page built or posted
QuantitiesWalked(config) ==
  Range(GridValues(Dec(config.quantityMin), Dec(config.quantityMax),
                   Dec(config.quantityStep)))

\* C39: the quantities walked by the shards a search starts are, together,
\* the quantities quantityMin + k * quantityStep <= quantityMax of the
\* search's baseConfig, and no quantity is walked by two shards.
C39_ShardsWalkTheSameGrid ==
  [][\A s \in 1..Len(searches) :
       (searches[s].state = "await" /\ searches'[s].state = "running") =>
         /\ UNION { QuantitiesWalked(StartedConfig(w)) : w \in 1..workers }
              = QuantitiesWalked(searches[s].baseConfig)
         /\ \A w1, w2 \in 1..workers :
              w1 # w2 => QuantitiesWalked(StartedConfig(w1))
                           \cap QuantitiesWalked(StartedConfig(w2)) = {}
    ]_vars
====
